---------------------------- MODULE Spec2Model ----------------------------
(***************************************************************************)
(* A model of the document-structure engine of Kokoro_pdf_reader:          *)
(*   - app/ingest/pdf_reader.py        chunk assembly (extract_chunks)      *)
(*   - app/pdf_pipeline/extractors/text_classifier.py  line classification *)
(*   - app/pdf_pipeline/extractors/caption_matcher.py  caption matching     *)
(*   - app/pdf_pipeline/utils/pdf_utils.py  reading order, box geometry     *)
(*   - app/pdf_pipeline/processor.py   the stages of process_pdf            *)
(*   - app/server.py                   project creation, audio, status      *)
(* Each component is a state machine of its own (SpecChunk, SpecClassify,  *)
(* SpecMatch, SpecMatchCaptions, SpecOrder, SpecBBox, SpecPostProcess,     *)
(* SpecProcessPdf, SpecFirstPass, SpecSentences, SpecServer); the          *)
(* variables of the other components stay at their initial value.          *)
(***************************************************************************)
EXTENDS Integers, Sequences, FiniteSets, TLC

VARIABLES
    \* ---- pdf_reader.extract_chunks
    doc,            \* the pages read so far: doc[p] is page p-1's sentence triplets
    chunks,         \* extract_chunks' `chunks` list
    order,          \* extract_chunks' `order` counter
    \* ---- TextClassifier
    page_num,       \* number of pages handed to classify_text_blocks so far
    font_sizes,     \* TextClassifier.font_sizes
    median_font_size, \* TextClassifier.median_font_size: <<>> for None, else <<2 * median>>
    results,        \* results['content'], one list per collection
    processed,      \* history: the <<page, line>> places _process_text_line went through with
    page_lines,     \* history: the lines of each page handed to classify_text_blocks
    \* ---- CaptionMatcher._perform_caption_matching
    captions,       \* the `captions` list (sorted in place by the call)
    visual_elements,\* the `visual_elements` list (sorted in place by the call)
    match_log,      \* history: the list of matches returned by each call
    \* ---- PDFUtils.detect_reading_order
    text_blocks,    \* the input list
    ordered_blocks, \* the returned list
    order_done,     \* whether detect_reading_order has returned
    \* ---- PDFUtils.bbox_overlap_ratio
    bbox1, bbox2,   \* the two boxes
    ratio12, ratio21, \* bbox_overlap_ratio(bbox1, bbox2) and (bbox2, bbox1)
    ratio_done,     \* whether the two calls have returned
    \* ---- CaptionMatcher.match_captions
    content,        \* results['content'] as match_captions reads and updates it
    match_captions_done, \* whether match_captions has returned
    caption_matching, \* results['metadata']['caption_matching']: <<>> or <<summary>>
    content_before, \* results['content'] as it was at the start of each call so far
    \* ---- TextClassifier post-processing (on `results`)
    post_input,     \* history: <<results before the call>>, <<>> before any call
    post_call,      \* the method that was called, "none" before any call
    post_raised,    \* whether an exception ended the passes of that call
    \* ---- PDFProcessor.process_pdf (on `results`)
    pdf_document,   \* self.document: the text lines of each page
    pdf_pc,         \* the call process_pdf makes next
    stage_log,      \* history: the calls process_pdf has made, in order
    matcher_input,  \* history: <<text_blocks handed to match_captions>>, <<>> before
    \* ---- pdf_reader.extract_chunks, first pass over one page
    span_sizes,     \* the "size" of the page's spans, in reading order
    page_mid,       \* the page's `mid`: [raised, value], value <<>> when the pass raised
    mid_done,       \* whether the first pass went over the page
    \* ---- pdf_reader._sentences_from_words
    words_tagged,   \* the page's words: whether the word ends a sentence, its section
    sentences_out,  \* the returned list: the word count and section of each sentence
    sents_done,     \* whether _sentences_from_words has returned
    \* ---- server.py
    processing_projects, \* doc_id -> the dict held for it (a place of entry_heap), 0 for no key
    entry_heap,     \* the status dicts created so far; a dict is known by its place
    threads,        \* the background threads: document, position, the dict it looked up
    merged_audio_path, \* per document: whether the library holds a merged audio path
    status_reply    \* what get_project_status returned last: <<>> or <<dict>>

chunk_vars    == <<doc, chunks, order>>
classify_vars == <<page_num, font_sizes, median_font_size, results, processed, page_lines>>
match_vars    == <<captions, visual_elements, match_log>>
order_vars    == <<text_blocks, ordered_blocks, order_done>>
bbox_vars     == <<bbox1, bbox2, ratio12, ratio21, ratio_done>>
content_vars  == <<content, match_captions_done, caption_matching, content_before>>
\* the variables of the whole-document passes and of the remaining helpers
post_vars == <<post_input, post_call, post_raised>>
pdf_vars == <<pdf_document, pdf_pc, stage_log, matcher_input>>
mid_vars == <<span_sizes, page_mid, mid_done>>
sent_vars == <<words_tagged, sentences_out, sents_done>>
server_vars == <<processing_projects, entry_heap, threads, merged_audio_path, status_reply>>
aux_vars == <<sent_vars, server_vars>>
ext_vars == <<content_vars, post_vars, pdf_vars, mid_vars, aux_vars>>
vars == <<chunk_vars, classify_vars, match_vars, order_vars, bbox_vars, ext_vars>>

\* Python's None
NoneVal == "None"

Max2(a, b) == IF a >= b THEN a ELSE b
Min2(a, b) == IF a <= b THEN a ELSE b
Abs(a) == IF a >= 0 THEN a ELSE -a

RECURSIVE SumSeq(_)
SumSeq(s) == IF s = <<>> THEN 0 ELSE Head(s) + SumSeq(Tail(s))

\* the number of items of a list of lists
TotalLen(d) == SumSeq([p \in 1..Len(d) |-> Len(d[p])])

\* All sequences over S of length 0..n
SeqsUpTo(S, n) == UNION {[1..k -> S] : k \in 0..n}

(***************************************************************************)
(*                        pdf_reader.py : chunking                         *)
(***************************************************************************)
\* _group_into_chunks' defaults
max_chars == 400
max_sents == 3

\* bounds of the chunking model
MaxPages == 3       \* pages of a document
MaxSents == 4       \* sentences of a document, over all its pages

\* A sentence triplet (text, boxes, section): the text is kept by its length
\* (len(txt)), the boxes are left out.
SentenceKinds ==
    { [len |-> 50,  section |-> "body"],
      [len |-> 150, section |-> "body"],
      [len |-> 200, section |-> "body"],
      [len |-> 301, section |-> "body"],
      [len |-> 401, section |-> "body"],
      [len |-> 50,  section |-> "caption"] }

\* sum(len(t) for t in cur_text)
RECURSIVE SumLen(_)
SumLen(ss) == IF ss = <<>> THEN 0 ELSE Head(ss).len + SumLen(Tail(ss))

\* len(" ".join(cur_text)): the texts and one space between neighbours
JoinLen(ss) == IF ss = <<>> THEN 0 ELSE SumLen(ss) + (Len(ss) - 1)

\* the tuple (" ".join(cur_text), cur_boxes, cur_section) appended to chunks;
\* sents keeps the sentences the text was joined from
MkChunk(cur_text, cur_section) ==
    [sents |-> cur_text, text_len |-> JoinLen(cur_text), section |-> cur_section]

\* a plausible slip: the length test with >= in place of >
ChunkBoundaryNonStrict(cur_text, cur_section, s) ==
    \/ s.section # cur_section
    \/ Len(cur_text) >= max_sents
    \/ SumLen(cur_text) + s.len >= max_chars

\* the boundary test of line 75
ChunkBoundary(cur_text, cur_section, s) ==
    \/ s.section # cur_section
    \/ Len(cur_text) >= max_sents
    \/ SumLen(cur_text) + s.len > max_chars

\* a plausible slip: the running chunk is appended at a boundary without the
\* test that it holds a sentence
RECURSIVE GroupLoopUnguarded(_, _, _, _, _)
GroupLoopUnguarded(sent_triplets, i, out, cur_text, cur_section) ==
    IF i > Len(sent_triplets)
    THEN IF cur_text # <<>> THEN Append(out, MkChunk(cur_text, cur_section)) ELSE out
    ELSE LET s    == sent_triplets[i]
             sec0 == IF cur_section = NoneVal THEN s.section ELSE cur_section
         IN IF ChunkBoundary(cur_text, sec0, s)
            THEN GroupLoopUnguarded(sent_triplets, i + 1,
                                    Append(out, MkChunk(cur_text, sec0)), <<s>>, s.section)
            ELSE GroupLoopUnguarded(sent_triplets, i + 1, out, Append(cur_text, s), sec0)

\* the loop of _group_into_chunks from sentence i on
RECURSIVE GroupLoop(_, _, _, _, _)
GroupLoop(sent_triplets, i, out, cur_text, cur_section) ==
    IF i > Len(sent_triplets)
    THEN IF cur_text # <<>> THEN Append(out, MkChunk(cur_text, cur_section)) ELSE out
    ELSE LET s    == sent_triplets[i]
             sec0 == IF cur_section = NoneVal THEN s.section ELSE cur_section
         IN IF ChunkBoundary(cur_text, sec0, s)
            THEN GroupLoop(sent_triplets, i + 1,
                           IF cur_text # <<>> THEN Append(out, MkChunk(cur_text, sec0))
                                              ELSE out,
                           <<s>>, s.section)
            ELSE GroupLoop(sent_triplets, i + 1, out, Append(cur_text, s), sec0)

\* a plausible slip: the sentence that closes a chunk is not carried into the next
GroupIntoChunksDropping(sent_triplets) ==
    LET RECURSIVE L(_, _, _, _)
        L(i, out, cur_text, cur_section) ==
            IF i > Len(sent_triplets)
            THEN IF cur_text # <<>> THEN Append(out, MkChunk(cur_text, cur_section)) ELSE out
            ELSE LET s    == sent_triplets[i]
                     sec0 == IF cur_section = NoneVal THEN s.section ELSE cur_section
                 IN IF ChunkBoundary(cur_text, sec0, s)
                    THEN L(i + 1,
                           IF cur_text # <<>> THEN Append(out, MkChunk(cur_text, sec0))
                                              ELSE out,
                           <<>>, s.section)
                    ELSE L(i + 1, out, Append(cur_text, s), sec0)
    IN L(1, <<>>, <<>>, NoneVal)

GroupIntoChunks(sent_triplets) == GroupLoop(sent_triplets, 1, <<>>, <<>>, NoneVal)

\* lines 261-263 of extract_chunks: one Chunk per page chunk, numbered from `ord`
RECURSIVE AppendChunks(_, _, _, _)
AppendChunksPerPage(cs, page_chunks, pno, ord) ==
    cs \o [k \in 1..Len(page_chunks) |->
             [page_index |-> pno, order_idx |-> k - 1,
              section |-> page_chunks[k].section,
              text_len |-> page_chunks[k].text_len,
              sents |-> page_chunks[k].sents]]

AppendChunks(cs, page_chunks, pno, ord) ==
    IF page_chunks = <<>> THEN cs
    ELSE AppendChunks(
           Append(cs, [page_index |-> pno, order_idx |-> ord,
                       section |-> Head(page_chunks).section,
                       text_len |-> Head(page_chunks).text_len,
                       sents |-> Head(page_chunks).sents]),
           Tail(page_chunks), pno, ord + 1)

ChunkInit ==
    /\ doc = <<>>
    /\ chunks = <<>>
    /\ order = 0

\* one iteration of extract_chunks' second loop (lines 192-263): page pno with
\* the sentence triplets _sentences_from_words returned for it
ExtractPage(sent_triplets) ==
    /\ Len(doc) < MaxPages
    /\ TotalLen(doc) + Len(sent_triplets) <= MaxSents
    /\ LET pno         == Len(doc)
           page_chunks == GroupIntoChunks(sent_triplets)
       IN /\ chunks' = AppendChunks(chunks, page_chunks, pno, order)
          /\ order' = order + Len(page_chunks)
    /\ doc' = Append(doc, sent_triplets)

\* the second loop of extract_chunks: any page that keeps the document
\* within MaxSents sentences
ChunkNext ==
    \E st \in SeqsUpTo(SentenceKinds, Max2(0, MaxSents - TotalLen(doc))) :
        ExtractPage(st)

(***************************************************************************)
(*                 text_classifier.py : line classification                *)
(***************************************************************************)
\* ProcessingConfig thresholds, in tenths
header_region_threshold_x10 == 1
footer_region_threshold_x10 == 9
footnote_size_ratio_x10 == 9
title_size_ratio_x10 == 13
\* _is_footnote's own region limit (0.7), in tenths
footnote_region_x10 == 7

\* page.rect.height of the sample pages
PageHeight == 800

\* bounds of the classification model
MaxClassifyPages == 2   \* pages handed to classify_text_blocks
MaxLines == 3           \* text lines of a document, over all its pages

\* The sample texts. The regular expressions of _compile_patterns are modelled
\* by the set of sample texts each of them matches (as Python's re decides).
Texts == {"3", "Figure 3: Model architecture", "The network is deep",
          "1. First item", "3. Results", "Introduction", "1 See Smith (2020)",
          "RELATED WORK", "We train the network on the whole corpus for ten epochs"}

\* len(text)
TextLen(t) ==
    CASE t = "3" -> 1
      [] t = "Figure 3: Model architecture" -> 28
      [] t = "The network is deep" -> 19
      [] t = "1. First item" -> 13
      [] t = "3. Results" -> 10
      [] t = "Introduction" -> 12
      [] t = "1 See Smith (2020)" -> 18
      [] t = "RELATED WORK" -> 12
      [] t = "We train the network on the whole corpus for ten epochs" -> 55
      [] OTHER -> 0

\* len(text.split())
WordCount(t) ==
    CASE t = "3" -> 1
      [] t = "Figure 3: Model architecture" -> 4
      [] t = "The network is deep" -> 4
      [] t = "1. First item" -> 3
      [] t = "3. Results" -> 2
      [] t = "Introduction" -> 1
      [] t = "1 See Smith (2020)" -> 4
      [] t = "RELATED WORK" -> 2
      [] t = "We train the network on the whole corpus for ten epochs" -> 11
      [] OTHER -> 0

\* self.page_number_pattern.match(text)
page_number_pattern(t) == t \in {"3"}
\* self.footnote_pattern.match(text)
footnote_pattern(t) == t \in {"1. First item", "3. Results", "1 See Smith (2020)"}
\* self.citation_pattern.search(text)
citation_pattern(t) == t \in {"1 See Smith (2020)"}
\* self.caption_pattern.match(text)
caption_pattern(t) == t \in {"Figure 3: Model architecture"}
\* any(pattern.match(text) for pattern in self.list_patterns)
list_patterns(t) == t \in {"1. First item", "3. Results"}
\* any(indicator in text.lower() for indicator in self.title_indicators)
title_indicators(t) == t \in {"Introduction", "3. Results"}
\* text.isupper()
IsUpper(t) == t \in {"RELATED WORK"}

\* span text .strip(): the sample span texts carry no outer blanks but the
\* all-blank span
Strip(t) == IF t = " " THEN "" ELSE t

\* " ".join(text_parts)
JoinText(text_parts) ==
    IF Len(text_parts) = 1 THEN text_parts[1]
    ELSE IF text_parts = <<"Figure 3:", "Model architecture">>
         THEN "Figure 3: Model architecture"
         ELSE ""

\* The sample lines of page.get_text("dict"): a bbox (x0, y0, x1, y1), the spans
\* (text, size, flags) and the layout type _get_layout_type finds for the block.
Span(t, sz, fl) == [text |-> t, size |-> sz, flags |-> fl]
Line(bb, sp, lt) == [bbox |-> bb, spans |-> sp, layout_type |-> lt]
SampleLines ==
    { Line(<<300, 760, 310, 770>>, <<Span("3", 8, 0)>>, NoneVal),
      Line(<<50, 40, 300, 56>>,
           <<Span("Figure 3:", 16, 0), Span("Model architecture", 16, 0)>>, NoneVal),
      Line(<<50, 400, 300, 416>>, <<Span("Figure 3: Model architecture", 16, 16)>>, NoneVal),
      Line(<<50, 300, 300, 316>>, <<Span("The network is deep", 16, 0)>>, NoneVal),
      Line(<<50, 600, 300, 608>>, <<Span("1. First item", 8, 0)>>, NoneVal),
      Line(<<50, 200, 300, 216>>, <<Span("3. Results", 16, 0)>>, NoneVal),
      Line(<<50, 100, 300, 116>>, <<Span("Introduction", 16, 0)>>, NoneVal),
      Line(<<50, 730, 300, 746>>, <<Span("The network is deep", 16, 0)>>, NoneVal),
      Line(<<50, 500, 300, 516>>, <<Span("The network is deep", 16, 0)>>, "caption"),
      Line(<<50, 350, 300, 366>>, <<Span(" ", 16, 0)>>, NoneVal),
      Line(<<50, 640, 300, 648>>, <<Span("The network is deep", 8, 0)>>, NoneVal) }

\* sorted(data)
RECURSIVE InsertInt(_, _)
InsertInt(x, s) ==
    IF s = <<>> THEN <<x>>
    ELSE IF x < Head(s) THEN <<x>> \o s ELSE <<Head(s)>> \o InsertInt(x, Tail(s))

RECURSIVE SortInts(_)
SortInts(s) == IF s = <<>> THEN <<>> ELSE InsertInt(Head(s), SortInts(Tail(s)))

\* statistics.median(data), doubled: the middle value, or the mean of the two
\* middle values
Median2(data) ==
    LET d == SortInts(data)
        n == Len(d)
    IN IF n % 2 = 1 THEN 2 * d[(n + 1) \div 2]
       ELSE d[n \div 2] + d[n \div 2 + 1]

\* _collect_font_statistics, the sizes appended for the lines of a page
RECURSIVE SpanSizes(_)
SpanSizes(spans) ==
    IF spans = <<>> THEN <<>>
    ELSE (IF Head(spans).size > 0 THEN <<Head(spans).size>> ELSE <<>>)
         \o SpanSizes(Tail(spans))

RECURSIVE CollectSizes(_)
CollectSizes(lines) ==
    IF lines = <<>> THEN <<>>
    ELSE SpanSizes(Head(lines).spans) \o CollectSizes(Tail(lines))

\* the median after _collect_font_statistics: updated only when font_sizes is
\* not empty
UpdatedMedian(sizes, old) == IF sizes # <<>> THEN <<Median2(sizes)>> ELSE old

\* _process_text_line's text_parts and font_info
RECURSIVE TextParts(_)
TextParts(spans) ==
    IF spans = <<>> THEN <<>>
    ELSE (IF Strip(Head(spans).text) # "" THEN <<Strip(Head(spans).text)>> ELSE <<>>)
         \o TextParts(Tail(spans))

RECURSIVE FontInfo(_)
FontInfo(spans) ==
    IF spans = <<>> THEN <<>>
    ELSE (IF Strip(Head(spans).text) # ""
          THEN <<[size |-> Head(spans).size, flags |-> Head(spans).flags]>> ELSE <<>>)
         \o FontInfo(Tail(spans))

\* sum(f.get('size', 0) for f in font_info)
RECURSIVE SumSizes(_)
SumSizes(font_info) ==
    IF font_info = <<>> THEN 0 ELSE Head(font_info).size + SumSizes(Tail(font_info))

\* y_ratio < header_region_threshold, y_ratio > footer_region_threshold
\* with y_ratio = bbox[1] / page_rect.height
InHeaderBand(bbox, height) == 10 * bbox[2] < header_region_threshold_x10 * height
InFooterBand(bbox, height) == 10 * bbox[2] > footer_region_threshold_x10 * height

IsPageNumber(text, bbox, height) ==
    /\ ~ (TextLen(text) > 10)
    /\ page_number_pattern(text)
    /\ (InHeaderBand(bbox, height) \/ InFooterBand(bbox, height))

IsHeaderFooter(bbox, height) == InHeaderBand(bbox, height) \/ InFooterBand(bbox, height)

\* `font_info and self.median_font_size`: a median that is None or 0 is falsy
HasMedian(font_info, median) ==
    font_info # <<>> /\ median # <<>> /\ median[1] # 0

\* avg_size > median * ratio  <=>  20 * sum > ratio_x10 * (2 * median) * len
IsFootnote(text, bbox, height, font_info, median) ==
    /\ ~ (10 * bbox[4] < footnote_region_x10 * height)
    /\ ~ (/\ HasMedian(font_info, median)
          /\ 20 * SumSizes(font_info) > footnote_size_ratio_x10 * median[1] * Len(font_info))
    /\ (footnote_pattern(text) \/ citation_pattern(text))

\* 'caption' in layout_type.lower()
IsCaption(text, layout_type) ==
    \/ (layout_type # NoneVal /\ layout_type \in {"caption"})
    \/ caption_pattern(text)

IsListItem(text) == list_patterns(text)

\* flags & 2**4
BoldFlag(flags) == (flags \div 16) % 2 = 1

IsTitle(text, font_info, layout_type, median) ==
    \/ (layout_type # NoneVal /\ layout_type = "title")
    \/ (/\ HasMedian(font_info, median)
        /\ 20 * SumSizes(font_info) >= title_size_ratio_x10 * median[1] * Len(font_info))
    \/ title_indicators(text)
    \/ \E k \in 1..Len(font_info) : BoldFlag(font_info[k].flags)
    \/ (TextLen(text) < 100 /\ IsUpper(text) /\ WordCount(text) <= 10)

\* a plausible slip: the caption rule tried before the position rules
ClassifyTextLineCaptionFirst(text, bbox, height, font_info, layout_type, median) ==
    IF TextLen(text) = 0 THEN "body"
    ELSE IF IsCaption(text, layout_type) THEN "caption"
    ELSE IF IsPageNumber(text, bbox, height) THEN "page_number"
    ELSE IF IsHeaderFooter(bbox, height)
         THEN (IF InHeaderBand(bbox, height) THEN "header" ELSE "footer")
    ELSE IF IsFootnote(text, bbox, height, font_info, median) THEN "footnote"
    ELSE IF IsListItem(text) THEN "list"
    ELSE IF IsTitle(text, font_info, layout_type, median) THEN "title"
    ELSE "body"

\* _classify_text_line
ClassifyTextLine(text, bbox, height, font_info, layout_type, median) ==
    IF TextLen(text) = 0 THEN "body"
    ELSE IF IsPageNumber(text, bbox, height) THEN "page_number"
    ELSE IF IsHeaderFooter(bbox, height)
         THEN (IF InHeaderBand(bbox, height) THEN "header" ELSE "footer")
    ELSE IF IsFootnote(text, bbox, height, font_info, median) THEN "footnote"
    ELSE IF IsCaption(text, layout_type) THEN "caption"
    ELSE IF IsListItem(text) THEN "list"
    ELSE IF IsTitle(text, font_info, layout_type, median) THEN "title"
    ELSE "body"

\* the collections of results['content'] that hold text lines
Collections == {"text_blocks", "titles", "headers", "footers", "page_numbers",
                "footnotes", "lists", "captions"}

\* a plausible slip in the if/elif chain: footers appended to the headers list
AddToCategoryFooterSlip(res, text_entry) ==
    LET t == text_entry.type
        c == CASE t = "title" -> "titles"
               [] t = "header" -> "headers"
               [] t = "footer" -> "headers"
               [] t = "page_number" -> "page_numbers"
               [] t = "footnote" -> "footnotes"
               [] t = "list" -> "lists"
               [] t = "caption" -> "captions"
               [] OTHER -> "text_blocks"
    IN [res EXCEPT ![c] = Append(@, text_entry)]

\* the if/elif chain of _process_text_line (lines 188-203)
AddToCategory(res, text_entry) ==
    LET t == text_entry.type
        c == CASE t = "title" -> "titles"
               [] t = "header" -> "headers"
               [] t = "footer" -> "footers"
               [] t = "page_number" -> "page_numbers"
               [] t = "footnote" -> "footnotes"
               [] t = "list" -> "lists"
               [] t = "caption" -> "captions"
               [] OTHER -> "text_blocks"
    IN [res EXCEPT ![c] = Append(@, text_entry)]

\* the guards of _process_text_line: a bbox and at least one non-empty span
LineIsProcessed(line) == line.bbox # <<>> /\ TextParts(line.spans) # <<>>

\* span.get("text", "").strip() of a span whose text is None raises
\* AttributeError; the line's bbox is tested first (lines 148-150)
LineRaises(line) ==
    line.bbox # <<>> /\ \E k \in 1..Len(line.spans) : line.spans[k].text = NoneVal

\* the number of lines the loop over the page's lines goes through with before
\* a line raises; the exception ends classify_text_blocks (lines 114-115)
RECURSIVE LinesReached(_)
LinesReached(lines) ==
    IF lines = <<>> \/ LineRaises(Head(lines)) THEN 0
    ELSE 1 + LinesReached(Tail(lines))

\* _process_text_line; line_no (the line's place in its page) and median_at (the
\* median the classification read) are history fields of the entry
ProcessTextLine(res, line, pno, line_no, height, median) ==
    IF ~ LineIsProcessed(line) THEN res
    ELSE LET full_text == JoinText(TextParts(line.spans))
             font_info == FontInfo(line.spans)
             text_type == ClassifyTextLine(full_text, line.bbox, height, font_info,
                                           line.layout_type, median)
         IN AddToCategory(res, [type |-> text_type, text |-> full_text, page |-> pno,
                                bbox |-> line.bbox, font_info |-> font_info,
                                layout_type |-> line.layout_type,
                                line_no |-> line_no, median_at |-> median])

\* the loop of classify_text_blocks over the lines of the page
RECURSIVE ProcessLines(_, _, _, _, _, _)
ProcessLines(res, lines, i, pno, height, median) ==
    IF i > Len(lines) THEN res
    ELSE IF LineRaises(lines[i]) THEN res
    ELSE ProcessLines(ProcessTextLine(res, lines[i], pno, i, height, median),
                      lines, i + 1, pno, height, median)

\* results['content'] as PDFProcessor creates it, and a fresh TextClassifier
ClassifyInit ==
    /\ page_num = 0
    /\ font_sizes = <<>>
    /\ median_font_size = <<>>
    /\ results = [c \in Collections |-> <<>>]
    /\ processed = {}
    /\ page_lines = <<>>

\* classify_text_blocks(page, page_num, ...) for the next page of the document
ClassifyTextBlocks(lines) ==
    /\ page_num < MaxClassifyPages
    /\ TotalLen(page_lines) + Len(lines) <= MaxLines
    /\ LET sizes   == font_sizes \o CollectSizes(lines)
           median == UpdatedMedian(sizes, median_font_size)
       IN /\ font_sizes' = sizes
          /\ median_font_size' = median
          /\ results' = ProcessLines(results, lines, 1, page_num, PageHeight, median)
    /\ processed' = processed \cup
           {<<page_num, i>> : i \in {k \in 1..LinesReached(lines) : LineIsProcessed(lines[k])}}
    /\ page_num' = page_num + 1
    /\ page_lines' = Append(page_lines, lines)

\* Sample lines for the handling of errors: two well-formed lines, a line whose
\* bbox has no area, a line of one blank span and a line with a span whose
\* text is None.
MalformedLines ==
    { Line(<<50, 100, 300, 116>>, <<Span("Introduction", 16, 0)>>, NoneVal),
      Line(<<50, 300, 300, 316>>, <<Span("The network is deep", 16, 0)>>, NoneVal),
      Line(<<50, 350, 50, 350>>, <<Span("The network is deep", 16, 0)>>, NoneVal),
      Line(<<50, 400, 300, 416>>, <<Span(" ", 16, 0)>>, NoneVal),
      Line(<<50, 200, 300, 216>>, <<Span(NoneVal, 16, 0)>>, NoneVal) }

\* the page loop over documents with such lines
ClassifyMalformedNext ==
    \E lines \in SeqsUpTo(MalformedLines, Max2(0, MaxLines - TotalLen(page_lines))) :
        ClassifyTextBlocks(lines)

\* the page loop of _process_with_text_extraction: any page that keeps the
\* document within MaxLines lines
ClassifyNext ==
    \E lines \in SeqsUpTo(SampleLines, Max2(0, MaxLines - TotalLen(page_lines))) :
        ClassifyTextBlocks(lines)

(***************************************************************************)
(*                 caption_matcher.py : caption matching                   *)
(***************************************************************************)
\* ProcessingConfig.caption_proximity_threshold, in points
caption_proximity_threshold == 100
\* the minimum score of line 220 (0.3), in thousandths
MinScore == 300

\* bounds of the matching model
MaxCaptions == 2    \* caption candidates handed to _perform_caption_matching
MaxElements == 2    \* visual elements handed to it
MaxCalls == 2       \* calls of _perform_caption_matching on the same lists

\* The sample caption candidates: a page, a bbox and the caption_type
\* (NoneVal for a caption entry of the text classifier, which has none).
CaptionKinds ==
    [page : {0},
     bbox : {<<100, 200, 300, 220>>, <<100, 260, 300, 280>>},
     caption_type : {"figure", NoneVal}]
    \cup [page : {1}, bbox : {<<100, 200, 300, 220>>}, caption_type : {"figure"}]

\* The sample visual elements, tagged with element_type as match_captions does.
ElementKinds ==
    [page : {0, 2}, bbox : {<<100, 100, 300, 200>>}, element_type : {"image", "table"}]
    \cup [page : {0, 2}, bbox : {<<100, 300, 300, 400>>}, element_type : {"image"}]

\* a list of dicts: id is the object's identity (its place in the list as given)
WithIds(s) == [k \in 1..Len(s) |-> [id |-> k, item |-> s[k]]]

\* the sort key (page, bbox[1]) of lines 185-186
KeyLess(a, b) ==
    \/ a.item.page < b.item.page
    \/ (a.item.page = b.item.page /\ a.item.bbox[2] < b.item.bbox[2])

\* list.sort is stable: an item goes after the items whose key is not greater
RECURSIVE InsertByKey(_, _)
InsertByKey(x, t) ==
    IF t = <<>> THEN <<x>>
    ELSE IF KeyLess(x, Head(t)) THEN <<x>> \o t
         ELSE <<Head(t)>> \o InsertByKey(x, Tail(t))

RECURSIVE StableSort(_)
StableSort(s) ==
    IF s = <<>> THEN <<>>
    ELSE InsertByKey(s[Len(s)], StableSort(SubSeq(s, 1, Len(s) - 1)))

\* a sort that is not stable: items of equal key come out in reverse order
RECURSIVE InsertBeforeEqual(_, _)
InsertBeforeEqual(x, t) ==
    IF t = <<>> THEN <<x>>
    ELSE IF ~ KeyLess(Head(t), x) THEN <<x>> \o t
         ELSE <<Head(t)>> \o InsertBeforeEqual(x, Tail(t))

RECURSIVE UnstableSort(_)
UnstableSort(s) ==
    IF s = <<>> THEN <<>>
    ELSE InsertBeforeEqual(s[Len(s)], UnstableSort(SubSeq(s, 1, Len(s) - 1)))

\* captions.sort(key=...), visual_elements.sort(key=...)
SortByPageY(s) == StableSort(s)

\* math.sqrt of a perfect square (the sample boxes give no other distance)
Sqrt(n) == CHOOSE r \in 0..n : r * r = n

\* _calculate_bbox_distance
CalculateBboxDistance(b1, b2) ==
    LET dx == Max2(0, Max2(b1[1] - b2[3], b2[1] - b1[3]))
        dy == Max2(0, Max2(b1[2] - b2[4], b2[2] - b1[4]))
    IN IF dx = 0 THEN dy ELSE IF dy = 0 THEN dx ELSE Sqrt(dx * dx + dy * dy)

\* 'fig' in caption_type, 'tab' in caption_type, 'eq' in caption_type, for the
\* caption types _analyze_text_for_caption can return
ContainsFig(t) == t \in {"figure", "fig"}
ContainsTab(t) == t \in {"table", "tab"}
ContainsEq(t) == t \in {"equation", "eq"}

\* _calculate_type_matching_score, in thousandths
CalculateTypeMatchingScore(caption_type, element_type) ==
    IF caption_type = NoneVal THEN 100
    ELSE IF \/ (caption_type \in {"figure", "fig", "algorithm", "listing"}
                  /\ element_type \in {"figure", "image"})
            \/ (caption_type \in {"table", "tab"} /\ element_type = "table")
            \/ (caption_type \in {"equation", "eq"} /\ element_type = "formula")
         THEN 1000
    ELSE IF \/ (ContainsFig(caption_type) /\ element_type \in {"figure", "image"})
            \/ (ContainsTab(caption_type) /\ element_type = "table")
            \/ (ContainsEq(caption_type) /\ element_type = "formula")
         THEN 800
         ELSE 100

\* _calculate_matching_score, in thousandths:
\* 0.3 * page_score + 0.4 * proximity_score + 0.3 * type_score
CalculateMatchingScore(caption, element) ==
    LET same     == caption.page = element.page
        adjacent == Abs(caption.page - element.page) = 1
        distance == CalculateBboxDistance(caption.bbox, element.bbox)
        proximity == Max2(0, (1000 * (caption_proximity_threshold - distance))
                                \div caption_proximity_threshold)
        type_score == CalculateTypeMatchingScore(caption.caption_type,
                                                 element.element_type)
    IN IF ~ same /\ ~ adjacent THEN 0
       ELSE ((IF same THEN 1000 ELSE 500) * 3 + proximity * 4 + type_score * 3) \div 10

\* the inner loop (lines 204-223) from element j on; best.idx = 0 is best_match
\* None
RECURSIVE BestLoop(_, _, _, _, _)
BestLoop(caption, elems, used_elements, j, best) ==
    IF j > Len(elems) THEN best
    ELSE IF j \in used_elements \/ elems[j].item.bbox = <<>>
         THEN BestLoop(caption, elems, used_elements, j + 1, best)
         ELSE LET score == CalculateMatchingScore(caption, elems[j].item)
              IN IF score > best.score /\ score > MinScore
                 THEN BestLoop(caption, elems, used_elements, j + 1,
                               [idx |-> j, score |-> score])
                 ELSE BestLoop(caption, elems, used_elements, j + 1, best)

\* a plausible slip: the used_elements test of line 205 left out
BestElementIgnoringUsed(caption, elems, used_elements) ==
    BestLoop(caption, elems, {}, 1, [idx |-> 0, score |-> 0])

\* a plausible slip: the first unused element above the minimum is taken
BestElementFirstFit(caption, elems, used_elements) ==
    LET ok == {j \in 1..Len(elems) :
                 /\ j \notin used_elements
                 /\ elems[j].item.bbox # <<>>
                 /\ CalculateMatchingScore(caption, elems[j].item) > MinScore}
    IN IF ok = {} THEN [idx |-> 0, score |-> 0]
       ELSE LET j == CHOOSE x \in ok : \A y \in ok : x <= y
            IN [idx |-> j, score |-> CalculateMatchingScore(caption, elems[j].item)]

\* lines 200-223: the best unused element for a caption
BestElement(caption, elems, used_elements) ==
    BestLoop(caption, elems, used_elements, 1, [idx |-> 0, score |-> 0])

\* the outer loop (lines 188-234) from caption i on. A match keeps the caption
\* and the element by identity; match_type is the pair the f-string joins by "_".
RECURSIVE MatchLoop(_, _, _, _, _, _)
MatchLoop(caps, elems, i, used_captions, used_elements, matches) ==
    IF i > Len(caps) THEN matches
    ELSE IF i \in used_captions \/ caps[i].item.bbox = <<>>
         THEN MatchLoop(caps, elems, i + 1, used_captions, used_elements, matches)
         ELSE LET best == BestElement(caps[i].item, elems, used_elements)
              IN IF best.idx # 0
                 THEN MatchLoop(caps, elems, i + 1,
                                used_captions \cup {i}, used_elements \cup {best.idx},
                                Append(matches,
                                       [caption |-> caps[i].id,
                                        element |-> elems[best.idx].id,
                                        score |-> best.score,
                                        match_type |-> <<caps[i].item.caption_type,
                                                         elems[best.idx].item.element_type>>]))
                 ELSE MatchLoop(caps, elems, i + 1, used_captions, used_elements, matches)

\* the lists handed to the first call
MatchInit ==
    /\ captions \in {WithIds(s) : s \in SeqsUpTo(CaptionKinds, MaxCaptions)}
    /\ visual_elements \in {WithIds(s) : s \in SeqsUpTo(ElementKinds, MaxElements)}
    /\ match_log = <<>>

\* _perform_caption_matching(captions, visual_elements): both lists are sorted
\* in place, the matches are returned
PerformCaptionMatching ==
    /\ Len(match_log) < MaxCalls
    /\ LET caps  == SortByPageY(captions)
           elems == SortByPageY(visual_elements)
       IN /\ captions' = caps
          /\ visual_elements' = elems
          /\ match_log' = Append(match_log, MatchLoop(caps, elems, 1, {}, {}, <<>>))

MatchNext == PerformCaptionMatching

(***************************************************************************)
(*             caption_matcher.py : match_captions and queries             *)
(***************************************************************************)
\* bounds of the match_captions model
MaxBodyBlocks == 2      \* entries of results['content']['text_blocks']
MaxCaptionBlocks == 1   \* entries of results['content']['captions']
MaxPerType == 1         \* entries of each of figures, images, tables, formulas
MaxMatchCalls == 2      \* calls of match_captions on the same results

\* the collections of visual elements and the element_type match_captions
\* tags their copies with (lines 86-89)
VisualTypes == <<"figures", "images", "tables", "formulas">>
ElementTypeOf(content_type) ==
    CASE content_type = "figures"  -> "figure"
      [] content_type = "images"   -> "image"
      [] content_type = "tables"   -> "table"
      [] content_type = "formulas" -> "formula"

\* the sample texts of body blocks: the first one looks like a caption, the
\* second one is the kind of text the compiled patterns accept
BodyTexts == {"Figure 1: Setup", "\\figure\\: Setup"}

\* _analyze_text_for_caption: the caption_type found in the text, NoneVal when
\* the function returns None. The patterns are compiled from raw strings that
\* hold doubled backslashes (lines 34-60), so "\\s" stands for a backslash
\* followed by the letter s, not for white space.
AnalyzeTextForCaption(text) ==
    IF text = "\\figure\\: Setup" THEN "figure" ELSE NoneVal

\* A text entry as the classifier leaves it in text_blocks or captions. The
\* identity of the dict is id; a key the dict does not have is NoneVal or <<>>.
TextEntry(id, type, text, page, bbox) ==
    [id |-> id, type |-> type, text |-> text, page |-> page, bbox |-> bbox,
     caption_type |-> NoneVal, caption_number |-> NoneVal, source |-> NoneVal,
     original_block |-> <<>>, matched_element |-> <<>>,
     match_score |-> <<>>, match_type |-> <<>>]

\* a visual element of the results; caption is <<>> while it has no such key
VisualEntry(id, page, bbox) == [id |-> id, page |-> page, bbox |-> bbox, caption |-> <<>>]

\* the sample body blocks, caption blocks and visual elements, without identity
BodyKinds ==
    [text : BodyTexts, page : {0}, bbox : {<<100, 200, 300, 220>>}]
    \cup [text : {"\\figure\\: Setup"}, page : {3}, bbox : {<<100, 200, 300, 220>>}]
CaptionBlockKinds == [text : {"Figure 2: Result"}, page : {0, 3}, bbox : {<<100, 260, 300, 280>>}]
VisualKinds == [page : {0}, bbox : {<<100, 100, 300, 200>>}]

\* the dicts of one collection, each with its identity
TextList(coll, type, s) ==
    [k \in 1..Len(s) |-> TextEntry(<<"orig", coll, k>>, type, s[k].text, s[k].page, s[k].bbox)]
VisualList(coll, s) ==
    [k \in 1..Len(s) |-> VisualEntry(<<"orig", coll, k>>, s[k].page, s[k].bbox)]

\* the items of s whose identity is not in ids, in order
RECURSIVE WithoutIds(_, _)
WithoutIds(s, ids) ==
    IF s = <<>> THEN <<>>
    ELSE (IF Head(s).id \in ids THEN <<>> ELSE <<Head(s)>>) \o WithoutIds(Tail(s), ids)

\* _find_captions_in_text
RECURSIVE FindCaptionsInText(_)
FindCaptionsInText(blocks) ==
    IF blocks = <<>> THEN <<>>
    ELSE LET block == Head(blocks)
             caption_type == AnalyzeTextForCaption(block.text)
         IN (IF caption_type = NoneVal THEN <<>>
             ELSE <<[TextEntry(<<"candidate", block.id[2], block.id[3]>>, "caption",
                               block.text, block.page, block.bbox)
                     EXCEPT !.caption_type = caption_type,
                            !.source = "text_analysis",
                            !.original_block = <<block.id>>]>>)
            \o FindCaptionsInText(Tail(blocks))

\* {**elem, 'element_type': ...}: a new dict with the element's keys
CopyWithType(elem, element_type) ==
    [id |-> <<"copy", elem.id[2], elem.id[3]>>, page |-> elem.page, bbox |-> elem.bbox,
     caption |-> elem.caption, element_type |-> element_type]

\* lines 85-89: the list of tagged copies
RECURSIVE VisualElementCopies(_, _)
VisualElementCopies(c, t) ==
    IF t > Len(VisualTypes) THEN <<>>
    ELSE [k \in 1..Len(c[VisualTypes[t]]) |->
             CopyWithType(c[VisualTypes[t]][k], ElementTypeOf(VisualTypes[t]))]
         \o VisualElementCopies(c, t + 1)

\* a list of dicts in the form _perform_caption_matching is modelled on
Identified(s) == [k \in 1..Len(s) |-> [id |-> s[k].id, item |-> s[k]]]

\* the dict of identity id in a list of that form
ItemOfId(list, id) ==
    (CHOOSE x \in {list[k] : k \in 1..Len(list)} : x.id = id).item

\* lines 340-350: caption.copy() with the match information added
EnhancedCaption(caption, element, match) ==
    [caption EXCEPT
        !.id = <<(IF caption.id[1] \in {"orig", "candidate"} THEN "enhanced"
                  ELSE caption.id[1] \o "+"), caption.id[2], caption.id[3]>>,
        !.matched_element = <<[type |-> element.element_type, page |-> element.page,
                               bbox |-> element.bbox, id |-> element.id]>>,
        !.match_score = <<match.score>>,
        !.match_type = <<match.match_type>>]

\* lines 354-360: the reference to the caption stored in the element handed to
\* _update_results_with_matches
CaptionReference(caption) ==
    [text |-> caption.text, page |-> caption.page, bbox |-> caption.bbox,
     caption_type |-> caption.caption_type, number |-> caption.caption_number]

\* lines 318-324: the identities of the body blocks of the matched candidates
MatchedTextBlocks(caps, matches) ==
    {ItemOfId(caps, matches[i].caption).original_block[1] :
        i \in {j \in 1..Len(matches) :
                  /\ ItemOfId(caps, matches[j].caption).source = "text_analysis"
                  /\ ItemOfId(caps, matches[j].caption).original_block # <<>>}}

\* lines 366-370: the identities of the matched captions that are not from
\* text analysis
MatchedExistingCaptions(caps, matches) ==
    {matches[i].caption : i \in {j \in 1..Len(matches) :
        ItemOfId(caps, matches[j].caption).source # "text_analysis"}}

\* lines 334-351: new_captions
NewCaptions(caps, elems, matches) ==
    [i \in 1..Len(matches) |->
        EnhancedCaption(ItemOfId(caps, matches[i].caption),
                        ItemOfId(elems, matches[i].element), matches[i])]

\* lines 353-360 for the whole loop: the elements of the list handed in, the
\* matched ones with their 'caption' key set
ElementsWithCaption(caps, elems, matches) ==
    [k \in 1..Len(elems) |->
        IF \E i \in 1..Len(matches) : matches[i].element = elems[k].id
        THEN LET i == CHOOSE j \in 1..Len(matches) : matches[j].element = elems[k].id
             IN [elems[k] EXCEPT
                    !.item.caption = <<CaptionReference(ItemOfId(caps, matches[i].caption))>>]
        ELSE elems[k]]

\* a plausible slip: the matched body blocks are left in text_blocks
UpdateTextBlocksKeeping(c, caps, matches) == c.text_blocks

\* lines 317-331: text_blocks without the matched body blocks
UpdateTextBlocks(c, caps, matches) ==
    IF MatchedTextBlocks(caps, matches) # {}
    THEN WithoutIds(c.text_blocks, MatchedTextBlocks(caps, matches))
    ELSE c.text_blocks

\* lines 362-373: the captions collection after the update
UpdateCaptions(c, caps, elems, matches) ==
    WithoutIds(c.captions, MatchedExistingCaptions(caps, matches))
    \o NewCaptions(caps, elems, matches)

\* lines 375-399: results['metadata']['caption_matching']
MatchSummary(new_captions, matches) ==
    [total_matches |-> Len(matches),
     by_type |-> [t \in {matches[i].match_type : i \in 1..Len(matches)} |->
                     Cardinality({i \in 1..Len(matches) : matches[i].match_type = t})],
     unmatched_captions |->
         Cardinality({k \in 1..Len(new_captions) :
                         \A i \in 1..Len(matches) : matches[i].caption # new_captions[k].id}),
     unmatched_elements |-> 0]

\* find_orphaned_captions
RECURSIVE OrphanedIn(_)
OrphanedIn(all_captions) ==
    IF all_captions = <<>> THEN <<>>
    ELSE (IF Head(all_captions).matched_element = <<>> THEN <<Head(all_captions)>> ELSE <<>>)
         \o OrphanedIn(Tail(all_captions))

FindOrphanedCaptions(c) == OrphanedIn(c.captions)

\* find_orphaned_elements, from collection t of VisualTypes on
RECURSIVE OrphanedElementsFrom(_, _)
OrphanedElementsFrom(c, t) ==
    IF t > Len(VisualTypes) THEN <<>>
    ELSE LET elements == c[VisualTypes[t]]
             RECURSIVE Scan(_)
             Scan(k) ==
                 IF k > Len(elements) THEN <<>>
                 ELSE (IF elements[k].caption = <<>>
                       THEN <<[CopyWithType(elements[k], ElementTypeOf(VisualTypes[t]))
                                 EXCEPT !.id = <<"orphan", elements[k].id[2], elements[k].id[3]>>]>>
                       ELSE <<>>) \o Scan(k + 1)
         IN Scan(1) \o OrphanedElementsFrom(c, t + 1)

FindOrphanedElements(c) == OrphanedElementsFrom(c, 1)

\* results['content'] before match_captions: text_blocks and captions of the
\* classifier, the visual elements of the extractors
MatchCaptionsInit ==
    /\ content \in
         {[text_blocks |-> TextList("text_blocks", "body", b),
           captions |-> TextList("captions", "caption", c),
           figures |-> VisualList("figures", f),
           images |-> VisualList("images", i),
           tables |-> VisualList("tables", t),
           formulas |-> VisualList("formulas", m)] :
            b \in SeqsUpTo(BodyKinds, MaxBodyBlocks),
            c \in SeqsUpTo(CaptionBlockKinds, MaxCaptionBlocks),
            f \in SeqsUpTo(VisualKinds, MaxPerType),
            i \in SeqsUpTo(VisualKinds, MaxPerType),
            t \in SeqsUpTo(VisualKinds, MaxPerType),
            m \in SeqsUpTo(VisualKinds, MaxPerType)}
    /\ match_captions_done = FALSE
    /\ caption_matching = <<>>
    /\ content_before = <<>>

\* match_captions(results): the candidates and the tagged copies are handed to
\* _perform_caption_matching (captions, visual_elements are its two lists,
\* sorted in place; match_log takes what it returns), then
\* _update_results_with_matches rewrites the results
MatchCaptions ==
    /\ Len(content_before) < MaxMatchCalls
    /\ content_before' = Append(content_before, content)
    /\ LET all_captions == content.captions \o FindCaptionsInText(content.text_blocks)
           caps    == SortByPageY(Identified(all_captions))
           elems   == SortByPageY(Identified(VisualElementCopies(content, 1)))
           matches == MatchLoop(caps, elems, 1, {}, {}, <<>>)
           new_captions == UpdateCaptions(content, caps, elems, matches)
       IN /\ captions' = caps
          /\ visual_elements' = ElementsWithCaption(caps, elems, matches)
          /\ match_log' = <<matches>>
          /\ content' = [content EXCEPT
                            !.text_blocks = UpdateTextBlocks(content, caps, matches),
                            !.captions = new_captions]
          /\ caption_matching' = <<MatchSummary(new_captions, matches)>>
    /\ match_captions_done' = TRUE

MatchCaptionsNext == MatchCaptions

(***************************************************************************)
(*                  pdf_utils.py : reading order, boxes                    *)
(***************************************************************************)
\* the column gap of _detect_columns (line 246), in points
ColumnGap == 50

\* bounds of the reading-order and box models
MaxBlocks == 3      \* blocks handed to detect_reading_order
MaxCoord == 2       \* the box corners of bbox_overlap_ratio lie on 0..MaxCoord

\* The sample blocks: a page and a bbox given by its x0 and y0.
BlockKinds ==
    {[page |-> p, bbox |-> <<x, y, x + 200, y + 12>>] :
        p \in {0, 1}, x \in {50, 90, 350, 650}, y \in {100, 200}}

\* the sort keys of detect_reading_order: bbox[1] for the blocks of a column
\* ("y"), (bbox[1], bbox[0]) for a single-column page ("yx")
BlockLess(key, a, b) ==
    \/ a.item.bbox[2] < b.item.bbox[2]
    \/ (key = "yx" /\ a.item.bbox[2] = b.item.bbox[2] /\ a.item.bbox[1] < b.item.bbox[1])

\* sorted(...) and list.sort(...) are stable: a block goes after the blocks whose
\* key is not greater
RECURSIVE InsertBlock(_, _, _)
InsertBlock(key, x, t) ==
    IF t = <<>> THEN <<x>>
    ELSE IF BlockLess(key, x, Head(t)) THEN <<x>> \o t
         ELSE <<Head(t)>> \o InsertBlock(key, x, Tail(t))

RECURSIVE SortBlocks(_, _)
SortBlocks(key, s) ==
    IF s = <<>> THEN <<>>
    ELSE InsertBlock(key, s[Len(s)], SortBlocks(key, SubSeq(s, 1, Len(s) - 1)))

\* the gaps of _detect_columns: for each pair of neighbours of the sorted x
\* positions more than ColumnGap apart, the right one (gaps[i][1])
RECURSIVE GapStarts(_)
GapStarts(xs) ==
    IF Len(xs) < 2 THEN <<>>
    ELSE (IF xs[2] - xs[1] > ColumnGap THEN <<xs[2]>> ELSE <<>>) \o GapStarts(Tail(xs))

\* a plausible slip: the first column taken up to and including the right edge
\* of the first gap
DetectColumnsInclusive(blocks) ==
    IF blocks = <<>> THEN <<>>
    ELSE
    LET xs   == SortInts([k \in 1..Len(blocks) |-> blocks[k].item.bbox[1]])
        gaps == GapStarts(xs)
        X(b) == b.item.bbox[1]
        InFirst(b) == X(b) <= gaps[1]
        InLast(b)  == X(b) >= gaps[Len(gaps)]
        first_column == SelectSeq(blocks, InFirst)
        last_column  == SelectSeq(blocks, InLast)
        Middle(i) == LET InMid(b) == gaps[i] <= X(b) /\ X(b) < gaps[i + 1]
                     IN SelectSeq(blocks, InMid)
        RECURSIVE Middles(_)
        Middles(i) == IF i > Len(gaps) - 1 THEN <<>>
                      ELSE (IF Middle(i) # <<>> THEN <<Middle(i)>> ELSE <<>>)
                           \o Middles(i + 1)
        columns == (IF first_column # <<>> THEN <<first_column>> ELSE <<>>)
                   \o Middles(1)
                   \o (IF last_column # <<>> THEN <<last_column>> ELSE <<>>)
    IN IF gaps = <<>> THEN <<blocks>>
       ELSE IF Len(columns) > 1 THEN columns ELSE <<blocks>>

\* _detect_columns
DetectColumns(blocks) ==
    IF blocks = <<>> THEN <<>>
    ELSE
    LET xs   == SortInts([k \in 1..Len(blocks) |-> blocks[k].item.bbox[1]])
        gaps == GapStarts(xs)
        X(b) == b.item.bbox[1]
        InFirst(b) == X(b) < gaps[1]
        InLast(b)  == X(b) >= gaps[Len(gaps)]
        first_column == SelectSeq(blocks, InFirst)
        last_column  == SelectSeq(blocks, InLast)
        Middle(i) == LET InMid(b) == gaps[i] <= X(b) /\ X(b) < gaps[i + 1]
                     IN SelectSeq(blocks, InMid)
        RECURSIVE Middles(_)
        Middles(i) == IF i > Len(gaps) - 1 THEN <<>>
                      ELSE (IF Middle(i) # <<>> THEN <<Middle(i)>> ELSE <<>>)
                           \o Middles(i + 1)
        columns == (IF first_column # <<>> THEN <<first_column>> ELSE <<>>)
                   \o Middles(1)
                   \o (IF last_column # <<>> THEN <<last_column>> ELSE <<>>)
    IN IF gaps = <<>> THEN <<blocks>>
       ELSE IF Len(columns) > 1 THEN columns ELSE <<blocks>>

\* the keys of the `pages` dict, in insertion order (lines 193-198)
RECURSIVE PageKeysAsInserted(_)
PageKeysAsInserted(blocks) ==
    IF blocks = <<>> THEN <<>>
    ELSE LET rest == PageKeysAsInserted(SubSeq(blocks, 1, Len(blocks) - 1))
             p    == blocks[Len(blocks)].item.page
         IN IF \E k \in 1..Len(rest) : rest[k] = p THEN rest ELSE Append(rest, p)

\* a plausible slip: the pages taken in the dict's order, not sorted
PageKeysUnsorted(blocks) == PageKeysAsInserted(blocks)

\* sorted(pages.keys())
PageKeys(blocks) == SortInts(PageKeysAsInserted(blocks))

\* pages[page_num]: the blocks of the page in input order
PageBlocks(blocks, p) ==
    LET OnPage(b) == b.item.page = p IN SelectSeq(blocks, OnPage)

\* lines 206-219: the blocks of one page in reading order
RECURSIVE ColumnsInOrder(_)
ColumnsInOrder(columns) ==
    IF columns = <<>> THEN <<>>
    ELSE SortBlocks("y", Head(columns)) \o ColumnsInOrder(Tail(columns))

\* a plausible slip: the columns emitted as _detect_columns returns them, the
\* blocks of a column left in input order
OrderPageColumnsUnsorted(page_blocks) ==
    LET columns == DetectColumns(page_blocks)
        RECURSIVE Flat(_)
        Flat(cs) == IF cs = <<>> THEN <<>> ELSE Head(cs) \o Flat(Tail(cs))
    IN IF Len(columns) > 1 THEN Flat(columns)
       ELSE SortBlocks("yx", page_blocks)

OrderPage(page_blocks) ==
    LET columns == DetectColumns(page_blocks)
    IN IF Len(columns) > 1 THEN ColumnsInOrder(columns)
       ELSE SortBlocks("yx", page_blocks)

RECURSIVE OrderPages(_, _)
OrderPages(blocks, keys) ==
    IF keys = <<>> THEN <<>>
    ELSE OrderPage(PageBlocks(blocks, Head(keys))) \o OrderPages(blocks, Tail(keys))

\* detect_reading_order: the ordered blocks, each with its reading_order index
DetectReadingOrder(blocks) ==
    LET ordered == OrderPages(blocks, PageKeys(blocks))
    IN [i \in 1..Len(ordered) |->
          [id |-> ordered[i].id, item |-> ordered[i].item, reading_order |-> i - 1]]

OrderInit ==
    /\ text_blocks \in {WithIds(s) : s \in SeqsUpTo(BlockKinds, MaxBlocks)}
    /\ ordered_blocks = <<>>
    /\ order_done = FALSE

\* the call detect_reading_order(text_blocks)
CallDetectReadingOrder ==
    /\ ~ order_done
    /\ ordered_blocks' = DetectReadingOrder(text_blocks)
    /\ order_done' = TRUE
    /\ UNCHANGED text_blocks

OrderNext == CallDetectReadingOrder

\* The boxes (x0, y0, x1, y1) with x0 <= x1 and y0 <= y1 on the grid
Boxes ==
    {b \in (0..MaxCoord) \X (0..MaxCoord) \X (0..MaxCoord) \X (0..MaxCoord) :
        b[1] <= b[3] /\ b[2] <= b[4]}

\* bbox_area
BboxArea(bbox) == Abs((bbox[3] - bbox[1]) * (bbox[4] - bbox[2]))

\* a plausible slip: the overlaps not clamped at 0
BboxOverlapUnclamped(b1, b2) ==
    (Min2(b1[3], b2[3]) - Max2(b1[1], b2[1])) * (Min2(b1[4], b2[4]) - Max2(b1[2], b2[2]))

\* bbox_overlap
BboxOverlap(b1, b2) ==
    LET x_overlap == Max2(0, Min2(b1[3], b2[3]) - Max2(b1[1], b2[1]))
        y_overlap == Max2(0, Min2(b1[4], b2[4]) - Max2(b1[2], b2[2]))
    IN x_overlap * y_overlap

\* a float result as the fraction num/den; a division by zero raises
Ratio(n, d) == [raised |-> FALSE, num |-> n, den |-> d]
Divide(n, d) == IF d = 0 THEN [raised |-> TRUE, num |-> 0, den |-> 1] ELSE Ratio(n, d)

\* bbox_overlap_ratio
BboxOverlapRatio(b1, b2) ==
    LET intersection == BboxOverlap(b1, b2)
        union == BboxArea(b1) + BboxArea(b2) - intersection
    IN IF intersection = 0 THEN Ratio(0, 1)
       ELSE IF union > 0 THEN Divide(intersection, union) ELSE Ratio(0, 1)

BBoxInit ==
    /\ bbox1 \in Boxes
    /\ bbox2 \in Boxes
    /\ ratio12 = Ratio(0, 1)
    /\ ratio21 = Ratio(0, 1)
    /\ ratio_done = FALSE

\* the calls bbox_overlap_ratio(bbox1, bbox2) and bbox_overlap_ratio(bbox2, bbox1)
CallBboxOverlapRatio ==
    /\ ~ ratio_done
    /\ ratio12' = BboxOverlapRatio(bbox1, bbox2)
    /\ ratio21' = BboxOverlapRatio(bbox2, bbox1)
    /\ ratio_done' = TRUE
    /\ UNCHANGED <<bbox1, bbox2>>

BBoxNext == CallBboxOverlapRatio

(***************************************************************************)
(*            text_classifier.py : post_process_classification             *)
(***************************************************************************)
\* ProcessingConfig.text_merge_threshold, in points
text_merge_threshold == 5
\* the horizontal variance _merge_nearby_blocks allows (line 400), in points
AlignmentVariance == 20
\* the page height _fix_header_footer_classification assumes (line 461)
ApproximatePageHeight == 800
\* the average y below which repeated text goes to the headers (line 468)
HeaderAverageY == 100
\* the shortest text _fix_header_footer_classification groups (line 449)
MinRepeatedTextLen == 5
\* the number of occurrences that make a text repeated (line 458)
MinRepeats == 3

\* bound of the post-processing model: the blocks in the results, all
\* collections together
MaxPostBlocks == 3

\* a classified block; merged_from is <<>> while the dict has no such key
PostEntry(type, text, page, bbox) ==
    [type |-> type, text |-> text, page |-> page, bbox |-> bbox, merged_from |-> <<>>]

\* The sample blocks, each with the collection it is in. Body lines: two lines
\* 2pt apart with equal x0, a third one 40pt below; a line at y0 = 730, which
\* lies in the body of a 842pt page (730 / 842 < 0.9) and in the footer band of
\* a 800pt page. Titles: two lines 2pt apart whose x0 differ by 10pt, a third
\* one 2pt below whose x0 is 30pt further right.
PostKinds ==
    {[coll |-> "text_blocks", entry |-> PostEntry("body", "Body line", p, b)] :
        p \in {0, 1, 2},
        b \in {<<100, 100, 300, 110>>, <<100, 112, 300, 122>>, <<100, 162, 300, 172>>}}
    \cup {[coll |-> "text_blocks",
           entry |-> PostEntry("body", "Running foot", p, <<100, 730, 300, 740>>)] :
            p \in {0, 1, 2}}
    \cup {[coll |-> "titles", entry |-> PostEntry("title", "Results", 0, b)] :
            b \in {<<100, 200, 300, 214>>, <<110, 216, 300, 230>>, <<140, 232, 300, 246>>}}
    \cup {[coll |-> "captions",
           entry |-> PostEntry("caption", "Figure 1: Setup", 0, <<100, 400, 300, 410>>)]}
    \cup {[coll |-> "headers",
           entry |-> PostEntry("header", "Running head", 0, <<100, 40, 300, 50>>)]}
    \cup {[coll |-> "footers",
           entry |-> PostEntry("footer", "Running foot", 2, <<100, 770, 300, 780>>)]}

\* the entries of collection c among the tagged blocks, in order
RECURSIVE EntriesOf(_, _)
EntriesOf(tagged, c) ==
    IF tagged = <<>> THEN <<>>
    ELSE (IF Head(tagged).coll = c THEN <<Head(tagged).entry>> ELSE <<>>)
         \o EntriesOf(Tail(tagged), c)

\* blocks.sort(key=lambda x: (x['page'], x['bbox'][1]))
SortEntriesByPageY(blocks) ==
    LET sorted == StableSort([k \in 1..Len(blocks) |-> [item |-> blocks[k]]])
    IN [k \in 1..Len(sorted) |-> sorted[k].item]

\* a plausible slip: a group is not closed by a change of page
JoinsGroupAnyPage(current, next_block) ==
    /\ ~ (next_block.bbox[2] - current.bbox[4] > text_merge_threshold)
    /\ ~ (Abs(current.bbox[1] - next_block.bbox[1]) > AlignmentVariance)

\* the three tests of the inner loop (lines 388-401): next_block joins the
\* group that ends with current
JoinsGroup(current, next_block) ==
    /\ next_block.page = current.page
    /\ ~ (next_block.bbox[2] - current.bbox[4] > text_merge_threshold)
    /\ ~ (Abs(current.bbox[1] - next_block.bbox[1]) > AlignmentVariance)

\* the inner loop (lines 385-405): the first place after j that is not in the
\* group
RECURSIVE GroupEnd(_, _)
GroupEnd(blocks, j) ==
    IF j > Len(blocks) THEN j
    ELSE IF JoinsGroup(blocks[j - 1], blocks[j]) THEN GroupEnd(blocks, j + 1)
         ELSE j

RECURSIVE MinOf(_)
MinOf(s) == IF Len(s) = 1 THEN s[1] ELSE Min2(s[1], MinOf(Tail(s)))
RECURSIVE MaxOf(_)
MaxOf(s) == IF Len(s) = 1 THEN s[1] ELSE Max2(s[1], MaxOf(Tail(s)))

\* ' '.join(texts)
RECURSIVE JoinTexts(_)
JoinTexts(texts) ==
    IF Len(texts) = 1 THEN texts[1]
    ELSE texts[1] \o " " \o JoinTexts(Tail(texts))

\* _merge_text_group
MergeTextGroup(blocks) ==
    [blocks[1] EXCEPT
        !.text = JoinTexts([k \in 1..Len(blocks) |-> blocks[k].text]),
        !.bbox = <<MinOf([k \in 1..Len(blocks) |-> blocks[k].bbox[1]]),
                   MinOf([k \in 1..Len(blocks) |-> blocks[k].bbox[2]]),
                   MaxOf([k \in 1..Len(blocks) |-> blocks[k].bbox[3]]),
                   MaxOf([k \in 1..Len(blocks) |-> blocks[k].bbox[4]])>>,
        !.merged_from = <<Len(blocks)>>]

\* a plausible slip: the outer loop resumes one place after the block that
\* closed the group
RECURSIVE MergeLoopSkipping(_, _, _)
MergeLoopSkipping(blocks, i, merged) ==
    IF i > Len(blocks) THEN merged
    ELSE LET j == GroupEnd(blocks, i + 1)
         IN MergeLoopSkipping(blocks, j + 1,
                Append(merged, IF j - i = 1 THEN blocks[i]
                               ELSE MergeTextGroup(SubSeq(blocks, i, j - 1))))

\* the outer loop (lines 378-414) from block i on
RECURSIVE MergeLoop(_, _, _)
MergeLoop(blocks, i, merged) ==
    IF i > Len(blocks) THEN merged
    ELSE LET j == GroupEnd(blocks, i + 1)
         IN MergeLoop(blocks, j,
                Append(merged, IF j - i = 1 THEN blocks[i]
                               ELSE MergeTextGroup(SubSeq(blocks, i, j - 1))))

\* lines 369-416 for one content type
MergeCollection(blocks) ==
    IF Len(blocks) <= 1 THEN blocks
    ELSE MergeLoop(SortEntriesByPageY(blocks), 1, <<>>)

\* _merge_nearby_blocks
MergeNearbyBlocks(res) ==
    [c \in DOMAIN res |->
        IF c \in {"text_blocks", "titles", "captions"} THEN MergeCollection(res[c])
        ELSE res[c]]

\* the page_rect _fix_header_footer_classification hands to _is_header_footer:
\* the dict {'height': 800}, where classify_text_blocks hands page.rect
ApproximatePageRect == [is_dict |-> TRUE, height |-> ApproximatePageHeight]

\* page_rect.height (line 274): <<height>>, or <<>> when the attribute lookup
\* raises AttributeError, as it does on a dict
HeightAttribute(page_rect) ==
    IF page_rect.is_dict THEN <<>> ELSE <<page_rect.height>>

\* lines 441-443: the blocks of text_blocks, headers and footers
AllTextBlocks(res) == res["text_blocks"] \o res["headers"] \o res["footers"]

\* block['text'].strip(); the sample texts have no white space at either end
StripText(text) == text

\* lines 446-454: the keys of text_groups in insertion order
RECURSIVE GroupKeys(_, _)
GroupKeys(blocks, seen) ==
    IF blocks = <<>> THEN <<>>
    ELSE LET text == StripText(Head(blocks).text)
         IN IF Len(text) < MinRepeatedTextLen \/ text \in seen
            THEN GroupKeys(Tail(blocks), seen)
            ELSE <<text>> \o GroupKeys(Tail(blocks), seen \cup {text})

\* text_groups[text]
RECURSIVE GroupOf(_, _)
GroupOf(blocks, text) ==
    IF blocks = <<>> THEN <<>>
    ELSE (IF StripText(Head(blocks).text) = text THEN <<Head(blocks)>> ELSE <<>>)
         \o GroupOf(Tail(blocks), text)

\* lines 471-475: a collection without the blocks of that text
RECURSIVE WithoutText(_, _)
WithoutText(blocks, text) ==
    IF blocks = <<>> THEN <<>>
    ELSE (IF StripText(Head(blocks).text) # text THEN <<Head(blocks)>> ELSE <<>>)
         \o WithoutText(Tail(blocks), text)

\* lines 466-480: the blocks of the group moved to headers or footers
MoveToHeaderFooter(res, text, blocks) ==
    LET sum_y == SumSeq([k \in 1..Len(blocks) |-> blocks[k].bbox[2]])
        target_type == IF sum_y < HeaderAverageY * Len(blocks) THEN "headers" ELSE "footers"
        target == IF target_type = "headers" THEN "header" ELSE "footer"
        removed == [c \in DOMAIN res |->
                       IF c \in {"text_blocks", "headers", "footers"}
                       THEN WithoutText(res[c], text) ELSE res[c]]
    IN [removed EXCEPT ![target_type] =
            @ \o [k \in 1..Len(blocks) |-> [blocks[k] EXCEPT !.type = target]]]

\* the loop of lines 457-480 over the keys from place g on; raised tells that
\* an exception left the function
RECURSIVE FixLoop(_, _, _, _)
FixLoop(res, all_text_blocks, keys, g) ==
    IF g > Len(keys) THEN [raised |-> FALSE, res |-> res]
    ELSE LET blocks == GroupOf(all_text_blocks, keys[g])
             height == HeightAttribute(ApproximatePageRect)
         IN IF Len(blocks) >= MinRepeats
            THEN IF height = <<>> THEN [raised |-> TRUE, res |-> res]
                 ELSE IF \A k \in 1..Len(blocks) : IsHeaderFooter(blocks[k].bbox, height[1])
                      THEN FixLoop(MoveToHeaderFooter(res, keys[g], blocks),
                                   all_text_blocks, keys, g + 1)
                      ELSE FixLoop(res, all_text_blocks, keys, g + 1)
            ELSE FixLoop(res, all_text_blocks, keys, g + 1)

\* _fix_header_footer_classification
FixHeaderFooterClassification(res) ==
    FixLoop(res, AllTextBlocks(res), GroupKeys(AllTextBlocks(res), {}), 1)

\* the sort key (page, bbox[1], bbox[0]) of _establish_reading_order
PageYXLess(a, b) ==
    \/ a.page < b.page
    \/ (a.page = b.page /\ a.bbox[2] < b.bbox[2])
    \/ (a.page = b.page /\ a.bbox[2] = b.bbox[2] /\ a.bbox[1] < b.bbox[1])

RECURSIVE InsertByPageYX(_, _)
InsertByPageYX(x, t) ==
    IF t = <<>> THEN <<x>>
    ELSE IF PageYXLess(x, Head(t)) THEN <<x>> \o t
         ELSE <<Head(t)>> \o InsertByPageYX(x, Tail(t))

RECURSIVE SortByPageYX(_)
SortByPageYX(s) ==
    IF s = <<>> THEN <<>>
    ELSE InsertByPageYX(s[Len(s)], SortByPageYX(SubSeq(s, 1, Len(s) - 1)))

\* _establish_reading_order (preserve_reading_order is True by default)
EstablishReadingOrder(res) == [c \in DOMAIN res |-> SortByPageYX(res[c])]

\* the results after classification, before any post-processing
PostProcessInit ==
    /\ results \in {[c \in Collections |-> EntriesOf(tagged, c)] :
                       tagged \in SeqsUpTo(PostKinds, MaxPostBlocks)}
    /\ post_input = <<>>
    /\ post_call = "none"
    /\ post_raised = FALSE
    /\ page_num = 0
    /\ font_sizes = <<>>
    /\ median_font_size = <<>>
    /\ processed = {}
    /\ page_lines = <<>>

\* _merge_nearby_blocks(results)
CallMergeNearbyBlocks ==
    /\ post_call = "none"
    /\ post_call' = "_merge_nearby_blocks"
    /\ post_input' = <<results>>
    /\ results' = MergeNearbyBlocks(results)
    /\ post_raised' = FALSE

\* _fix_header_footer_classification(results)
CallFixHeaderFooterClassification ==
    /\ post_call = "none"
    /\ post_call' = "_fix_header_footer_classification"
    /\ post_input' = <<results>>
    /\ results' = FixHeaderFooterClassification(results).res
    /\ post_raised' = FixHeaderFooterClassification(results).raised

\* post_process_classification(results): the three passes inside one try; an
\* exception ends the passes and is logged
PostProcessClassification ==
    /\ post_call = "none"
    /\ post_call' = "post_process_classification"
    /\ post_input' = <<results>>
    /\ LET fixed == FixHeaderFooterClassification(MergeNearbyBlocks(results))
       IN /\ results' = IF fixed.raised THEN fixed.res ELSE EstablishReadingOrder(fixed.res)
          /\ post_raised' = fixed.raised

PostProcessNext ==
    /\ \/ CallMergeNearbyBlocks
       \/ CallFixHeaderFooterClassification
       \/ PostProcessClassification
    /\ UNCHANGED <<page_num, font_sizes, median_font_size, processed, page_lines>>

(***************************************************************************)
(*                       processor.py : process_pdf                        *)
(***************************************************************************)
\* ocr_fallback_threshold (config.py:68), in tenths
ocr_fallback_threshold_x10 == 1
\* _check_text_extractability samples the first 10 pages (line 196)
SampledPages == 10
\* a page counts as extractable when its text is longer than 50 (line 199)
MinPageTextLen == 50

\* The text lines of the sample documents: a title, two body lines 2pt apart
\* with equal x0, and a caption line. The documents hold neither images nor
\* tables nor formulas, and the layout detector finds no region.
PdfLines ==
    { Line(<<50, 100, 300, 116>>, <<Span("Introduction", 16, 0)>>, NoneVal),
      Line(<<50, 300, 300, 316>>,
           <<Span("We train the network on the whole corpus for ten epochs", 16, 0)>>,
           NoneVal),
      Line(<<50, 318, 300, 334>>,
           <<Span("We train the network on the whole corpus for ten epochs", 16, 0)>>,
           NoneVal),
      Line(<<50, 400, 300, 416>>, <<Span("Figure 3: Model architecture", 16, 0)>>, NoneVal) }

\* the documents of at most p pages and n lines
RECURSIVE DocumentsUpTo(_, _)
DocumentsUpTo(p, n) ==
    IF p = 0 THEN {<<>>}
    ELSE {<<>>} \cup
         UNION {{<<pg>> \o rest : rest \in DocumentsUpTo(p - 1, n - Len(pg))} :
                   pg \in SeqsUpTo(PdfLines, n)}

\* len(page.get_text().strip()): the texts of the page's lines, one per row
PageTextLen(lines) ==
    SumSeq([i \in 1..Len(lines) |-> TextLen(JoinText(TextParts(lines[i].spans)))])
    + Max2(0, Len(lines) - 1)

\* _check_text_extractability: pages_with_text over the sampled pages
PagesWithText(d) ==
    Cardinality({p \in 1..Min2(SampledPages, Len(d)) : PageTextLen(d[p]) > MinPageTextLen})

\* text_extractable < self.config.ocr_fallback_threshold (line 164)
LowExtractability(d) ==
    10 * PagesWithText(d) < ocr_fallback_threshold_x10 * Min2(SampledPages, Len(d))

\* process_pdf after fitz.open and the creation of self.results (lines 129-160);
\* a document has at least one page
ProcessPdfInit ==
    /\ pdf_document \in {d \in DocumentsUpTo(MaxClassifyPages, MaxLines) : Len(d) >= 1}
    /\ pdf_pc = "_check_text_extractability"
    /\ stage_log = <<>>
    /\ matcher_input = <<>>
    /\ caption_matching = <<>>
    /\ ClassifyInit

\* lines 163-168: the choice between OCR and native text extraction
CheckTextExtractability ==
    /\ pdf_pc = "_check_text_extractability"
    /\ stage_log' = Append(stage_log, "_check_text_extractability")
    /\ pdf_pc' = IF LowExtractability(pdf_document) THEN "_process_with_ocr"
                 ELSE "_process_with_text_extraction"
    /\ UNCHANGED <<pdf_document, matcher_input, caption_matching, classify_vars>>

\* _process_with_ocr of a processor without an OCR engine (no processor, lines
\* 223-225, or process_document's return at ocr_processor.py 114-116): the
\* results stay as they are
ProcessWithOcr ==
    /\ pdf_pc = "_process_with_ocr"
    /\ stage_log' = Append(stage_log, "_process_with_ocr")
    /\ pdf_pc' = "_match_captions"
    /\ UNCHANGED <<pdf_document, matcher_input, caption_matching, classify_vars>>

\* one turn of the page loop of _process_with_text_extraction (lines 208-219):
\* _extract_text_blocks hands the page to classify_text_blocks
ProcessPage ==
    /\ pdf_pc = "_process_with_text_extraction"
    /\ page_num < Len(pdf_document)
    /\ ClassifyTextBlocks(pdf_document[page_num + 1])
    /\ stage_log' = Append(stage_log, "classify_text_blocks")
    /\ pdf_pc' = IF page_num + 1 = Len(pdf_document) THEN "_match_captions"
                 ELSE "_process_with_text_extraction"
    /\ UNCHANGED <<pdf_document, matcher_input, caption_matching>>

\* _match_captions (line 171): with no visual element there is no match, so
\* match_captions leaves the collections as they are and stores its summary
ProcessMatchCaptions ==
    /\ pdf_pc = "_match_captions"
    /\ matcher_input' = <<results.text_blocks>>
    /\ caption_matching' = <<[total_matches |-> 0, by_type |-> <<>>,
                              unmatched_captions |-> Len(results.captions),
                              unmatched_elements |-> 0]>>
    /\ stage_log' = Append(stage_log, "match_captions")
    /\ pdf_pc' = "_classify_reading_order"
    /\ UNCHANGED <<pdf_document, classify_vars>>

\* _classify_reading_order (line 172, preserve_reading_order being set): every
\* collection sorted by (page, bbox[1])
ProcessClassifyReadingOrder ==
    /\ pdf_pc = "_classify_reading_order"
    /\ results' = [c \in Collections |-> SortEntriesByPageY(results[c])]
    /\ stage_log' = Append(stage_log, "_classify_reading_order")
    /\ pdf_pc' = "_generate_outputs"
    /\ UNCHANGED <<pdf_document, matcher_input, caption_matching, page_num, font_sizes,
                   median_font_size, processed, page_lines>>

\* _generate_outputs (line 173) and the return of self.results; the files
\* written from the results are not part of the state
ProcessGenerateOutputs ==
    /\ pdf_pc = "_generate_outputs"
    /\ stage_log' = Append(stage_log, "_generate_outputs")
    /\ pdf_pc' = "return"
    /\ UNCHANGED <<pdf_document, matcher_input, caption_matching, classify_vars>>

ProcessPdfNext ==
    \/ CheckTextExtractability
    \/ ProcessWithOcr
    \/ ProcessPage
    \/ ProcessMatchCaptions
    \/ ProcessClassifyReadingOrder
    \/ ProcessGenerateOutputs

(***************************************************************************)
(*            pdf_reader.py : extract_chunks, the first pass               *)
(***************************************************************************)
\* the `mid` of a page without spans (line 188)
DefaultMid == 12

\* bound and sample sizes of the first-pass model
MaxSpans == 3           \* spans of the page
SpanSizeValues == {-4, 0, 10, 12, 14}

\* lines 184-185: the sizes that are truthy, sorted
TruthySizes(sizes) == SortInts(SelectSeq(sizes, LAMBDA z : z # 0))

\* lines 183-188: the page's mid; sizes[len(sizes)//2] raises IndexError on an
\* empty list
FirstPassMid(sizes) ==
    IF sizes # <<>>
    THEN LET kept == TruthySizes(sizes)
         IN IF Len(kept) \div 2 + 1 > Len(kept)
            THEN [raised |-> TRUE, value |-> <<>>]
            ELSE [raised |-> FALSE, value |-> <<kept[Len(kept) \div 2 + 1]>>]
    ELSE [raised |-> FALSE, value |-> <<DefaultMid>>]

\* a page of the document with its spans, before the first pass
FirstPassInit ==
    /\ span_sizes \in SeqsUpTo(SpanSizeValues, MaxSpans)
    /\ page_mid = [raised |-> FALSE, value |-> <<>>]
    /\ mid_done = FALSE

\* lines 171-189 for the page
FirstPassPage ==
    /\ ~ mid_done
    /\ page_mid' = FirstPassMid(span_sizes)
    /\ mid_done' = TRUE
    /\ UNCHANGED span_sizes

FirstPassNext == FirstPassPage

(***************************************************************************)
(*                 pdf_reader.py : _sentences_from_words                   *)
(***************************************************************************)
\* bound of the sentence model
MaxWords == 4           \* words of the page

\* the sections extract_chunks tags words with (lines 242-251); three of them
\* are sampled
SectionNames == {"body", "caption", "footnote"}

\* The sample words: a word of the page has no blank in it; `ends` says that it
\* ends with one of . ? ! and so closes a sentence of the joined text.
WordKinds == [ends : BOOLEAN, section : SectionNames]

\* sec_slice.count(c)
CountOf(sec_slice, c) == Cardinality({k \in 1..Len(sec_slice) : sec_slice[k] = c})

\* max(set(sec_slice), key=sec_slice.count): the first section of greatest
\* count in the iteration order of the set, which for strings changes with the
\* hash seed of the run; any section of greatest count can come first
DominantSections(sec_slice) ==
    {c \in {sec_slice[k] : k \in 1..Len(sec_slice)} :
        \A d \in {sec_slice[k] : k \in 1..Len(sec_slice)} :
            CountOf(sec_slice, c) >= CountOf(sec_slice, d)}

\* the place of the last word of the sentence that starts at word wi
RECURSIVE SentenceEnd(_, _)
SentenceEnd(words, wi) ==
    IF wi >= Len(words) \/ words[wi].ends THEN wi ELSE SentenceEnd(words, wi + 1)

\* the loop over raw_sents (lines 52-61) from word wi on: the lists `out` can
\* be
RECURSIVE SentencesFrom(_, _)
SentencesFrom(words, wi) ==
    IF wi > Len(words) THEN {<<>>}
    ELSE LET last == SentenceEnd(words, wi)
             sec_slice == [k \in 1..(last - wi + 1) |-> words[wi + k - 1].section]
         IN {<<[n |-> last - wi + 1, section |-> c]>> \o rest :
                c \in DominantSections(sec_slice),
                rest \in SentencesFrom(words, last + 1)}

\* the words of a page, before the call
SentencesInit ==
    /\ words_tagged \in SeqsUpTo(WordKinds, MaxWords)
    /\ sentences_out = <<>>
    /\ sents_done = FALSE

\* _sentences_from_words(words)
SentencesFromWords ==
    /\ ~ sents_done
    /\ sentences_out' \in SentencesFrom(words_tagged, 1)
    /\ sents_done' = TRUE
    /\ UNCHANGED words_tagged

SentencesNext == SentencesFromWords

(***************************************************************************)
(*              server.py : project creation, audio, status                *)
(***************************************************************************)
\* bound of the server model
MaxCreates == 2         \* calls of create_project that start a background thread

\* the documents of the library; ensure_document derives the id from the path,
\* so a second call for the same file gets the same id
DocIds == {"doc_a", "doc_b"}

\* the values generate_audio_background writes to "progress" (lines 87-108)
ProgressSteps == <<10, 20, 30, 80, 90>>

\* a dict of processing_projects; has_error stands for the "error" key
Entry(status, progress, has_error) ==
    [status |-> status, progress |-> progress, has_error |-> has_error]

\* the server after start-up: an empty processing_projects, and a library that
\* may hold merged audio of an earlier run
ServerInit ==
    /\ processing_projects = [d \in DocIds |-> 0]
    /\ entry_heap = <<>>
    /\ threads = <<>>
    /\ merged_audio_path \in [DocIds -> BOOLEAN]
    /\ status_reply = <<>>

\* create_project for an existing file whose chunks are extracted: the records
\* are saved with merged_audio_path "" (line 75), a new dict is stored under the
\* doc id (line 78) and the background thread is started (lines 79-81)
CreateProject(doc_id) ==
    /\ Len(threads) < MaxCreates
    /\ merged_audio_path' = [merged_audio_path EXCEPT ![doc_id] = FALSE]
    /\ entry_heap' = Append(entry_heap, Entry("processing", 0, FALSE))
    /\ processing_projects' = [processing_projects EXCEPT ![doc_id] = Len(entry_heap) + 1]
    /\ threads' = Append(threads, [doc_id |-> doc_id, pc |-> "lookup", step |-> 1, entry |-> 0])
    /\ UNCHANGED status_reply

\* processing_projects[doc_id]["progress"] = n, first half: the subscript
\* processing_projects[doc_id] is evaluated
ProgressLookup(t) ==
    /\ threads[t].pc = "lookup"
    /\ threads' = [threads EXCEPT ![t].pc = "store",
                                  ![t].entry = processing_projects[threads[t].doc_id]]
    /\ UNCHANGED <<processing_projects, entry_heap, merged_audio_path, status_reply>>

\* second half: the "progress" key of that dict is set; after the last of the
\* five writes comes lib.save_chunk_records (line 110)
ProgressStore(t) ==
    /\ threads[t].pc = "store"
    /\ entry_heap' = [entry_heap EXCEPT
                         ![threads[t].entry].progress = ProgressSteps[threads[t].step]]
    /\ threads' = [threads EXCEPT
                      ![t].pc = IF threads[t].step = Len(ProgressSteps) THEN "save" ELSE "lookup",
                      ![t].step = threads[t].step + 1,
                      ![t].entry = 0]
    /\ UNCHANGED <<processing_projects, merged_audio_path, status_reply>>

\* lines 110-112: the records are saved with the merged audio path and a new
\* dict {"status": "completed", "progress": 100} is stored under the doc id
AudioCompleted(t) ==
    /\ threads[t].pc = "save"
    /\ merged_audio_path' = [merged_audio_path EXCEPT ![threads[t].doc_id] = TRUE]
    /\ entry_heap' = Append(entry_heap, Entry("completed", 100, FALSE))
    /\ processing_projects' =
           [processing_projects EXCEPT ![threads[t].doc_id] = Len(entry_heap) + 1]
    /\ threads' = [threads EXCEPT ![t].pc = "done"]
    /\ UNCHANGED status_reply

\* lines 114-115: one of the calls between the writes (lib.audio_dir, KokoroTTS,
\* synth_chunks, the update of the records, lib.save_chunk_records) raises, and
\* the handler stores a new dict {"status": "failed", "progress": 0, "error": ...}
AudioFailed(t) ==
    /\ \/ threads[t].pc = "lookup" /\ threads[t].step >= 2
       \/ threads[t].pc = "save"
    /\ entry_heap' = Append(entry_heap, Entry("failed", 0, TRUE))
    /\ processing_projects' =
           [processing_projects EXCEPT ![threads[t].doc_id] = Len(entry_heap) + 1]
    /\ threads' = [threads EXCEPT ![t].pc = "done"]
    /\ UNCHANGED <<merged_audio_path, status_reply>>

\* generate_audio_background, one step of thread t
GenerateAudioBackground(t) ==
    \/ ProgressLookup(t)
    \/ ProgressStore(t)
    \/ AudioCompleted(t)
    \/ AudioFailed(t)

\* get_project_status
GetProjectStatus(doc_id) ==
    /\ status_reply' =
           <<IF processing_projects[doc_id] # 0 THEN entry_heap[processing_projects[doc_id]]
             ELSE IF merged_audio_path[doc_id] THEN Entry("completed", 100, FALSE)
             ELSE Entry("unknown", 0, FALSE)>>
    /\ UNCHANGED <<processing_projects, entry_heap, threads, merged_audio_path>>

ServerNext ==
    \/ \E doc_id \in DocIds : CreateProject(doc_id)
    \/ \E t \in 1..Len(threads) : GenerateAudioBackground(t)
    \/ \E doc_id \in DocIds : GetProjectStatus(doc_id)

(***************************************************************************)
(*                             specifications                              *)
(***************************************************************************)
\* the components at rest
MatchIdle ==
    /\ captions = <<>>
    /\ visual_elements = <<>>
    /\ match_log = <<>>

OrderIdle ==
    /\ text_blocks = <<>>
    /\ ordered_blocks = <<>>
    /\ order_done = FALSE

BBoxIdle ==
    /\ bbox1 = <<0, 0, 0, 0>>
    /\ bbox2 = <<0, 0, 0, 0>>
    /\ ratio12 = Ratio(0, 1)
    /\ ratio21 = Ratio(0, 1)
    /\ ratio_done = FALSE

ContentIdle ==
    /\ content = [c \in {} |-> <<>>]
    /\ match_captions_done = FALSE
    /\ caption_matching = <<>>
    /\ content_before = <<>>

PostIdle ==
    /\ post_input = <<>>
    /\ post_call = "none"
    /\ post_raised = FALSE

PdfIdle ==
    /\ pdf_document = <<>>
    /\ pdf_pc = "none"
    /\ stage_log = <<>>
    /\ matcher_input = <<>>

MidIdle ==
    /\ span_sizes = <<>>
    /\ page_mid = [raised |-> FALSE, value |-> <<>>]
    /\ mid_done = FALSE

SentIdle ==
    /\ words_tagged = <<>>
    /\ sentences_out = <<>>
    /\ sents_done = FALSE

ServerIdle ==
    /\ processing_projects = <<>>
    /\ entry_heap = <<>>
    /\ threads = <<>>
    /\ merged_audio_path = <<>>
    /\ status_reply = <<>>

AuxIdle == SentIdle /\ ServerIdle

ExtIdle == ContentIdle /\ PostIdle /\ PdfIdle /\ MidIdle /\ AuxIdle

InitClassify == ClassifyInit /\ ChunkInit /\ MatchIdle /\ OrderIdle /\ BBoxIdle /\ ExtIdle
NextClassify == ClassifyNext /\ UNCHANGED <<chunk_vars, match_vars, order_vars, bbox_vars, ext_vars>>
SpecClassify == InitClassify /\ [][NextClassify]_vars

NextClassifyMalformed ==
    ClassifyMalformedNext
    /\ UNCHANGED <<chunk_vars, match_vars, order_vars, bbox_vars, ext_vars>>
SpecClassifyMalformed == InitClassify /\ [][NextClassifyMalformed]_vars

InitMatch == MatchInit /\ ChunkInit /\ ClassifyInit /\ OrderIdle /\ BBoxIdle /\ ExtIdle
NextMatch == MatchNext /\ UNCHANGED <<chunk_vars, classify_vars, order_vars, bbox_vars, ext_vars>>
SpecMatch == InitMatch /\ [][NextMatch]_vars

InitOrder == OrderInit /\ ChunkInit /\ ClassifyInit /\ MatchIdle /\ BBoxIdle /\ ExtIdle
NextOrder == OrderNext /\ UNCHANGED <<chunk_vars, classify_vars, match_vars, bbox_vars, ext_vars>>
SpecOrder == InitOrder /\ [][NextOrder]_vars

InitBBox == BBoxInit /\ ChunkInit /\ ClassifyInit /\ MatchIdle /\ OrderIdle /\ ExtIdle
NextBBox == BBoxNext /\ UNCHANGED <<chunk_vars, classify_vars, match_vars, order_vars, ext_vars>>
SpecBBox == InitBBox /\ [][NextBBox]_vars

InitMatchCaptions ==
    /\ MatchCaptionsInit /\ MatchIdle /\ ChunkInit /\ ClassifyInit /\ OrderIdle /\ BBoxIdle
    /\ PostIdle /\ PdfIdle /\ MidIdle /\ AuxIdle
NextMatchCaptions ==
    MatchCaptionsNext
    /\ UNCHANGED <<chunk_vars, classify_vars, order_vars, bbox_vars, post_vars, pdf_vars,
                   mid_vars, aux_vars>>
SpecMatchCaptions == InitMatchCaptions /\ [][NextMatchCaptions]_vars

InitPostProcess ==
    /\ PostProcessInit /\ ChunkInit /\ MatchIdle /\ OrderIdle /\ BBoxIdle /\ ContentIdle
    /\ PdfIdle /\ MidIdle /\ AuxIdle
NextPostProcess ==
    PostProcessNext
    /\ UNCHANGED <<chunk_vars, match_vars, order_vars, bbox_vars, content_vars, pdf_vars,
                   mid_vars, aux_vars>>
SpecPostProcess == InitPostProcess /\ [][NextPostProcess]_vars

InitProcessPdf ==
    /\ ProcessPdfInit /\ ChunkInit /\ MatchIdle /\ OrderIdle /\ BBoxIdle /\ PostIdle
    /\ content = [c \in {} |-> <<>>] /\ match_captions_done = FALSE /\ MidIdle
    /\ content_before = <<>>
    /\ AuxIdle
NextProcessPdf ==
    ProcessPdfNext
    /\ UNCHANGED <<chunk_vars, match_vars, order_vars, bbox_vars, post_vars,
                   content, match_captions_done, content_before, mid_vars, aux_vars>>
SpecProcessPdf == InitProcessPdf /\ [][NextProcessPdf]_vars

InitFirstPass ==
    /\ FirstPassInit /\ ChunkInit /\ ClassifyInit /\ MatchIdle /\ OrderIdle /\ BBoxIdle
    /\ ContentIdle /\ PostIdle /\ PdfIdle /\ AuxIdle
NextFirstPass ==
    FirstPassNext
    /\ UNCHANGED <<chunk_vars, classify_vars, match_vars, order_vars, bbox_vars,
                   content_vars, post_vars, pdf_vars, aux_vars>>
SpecFirstPass == InitFirstPass /\ [][NextFirstPass]_vars

InitSentences ==
    /\ SentencesInit /\ ChunkInit /\ ClassifyInit /\ MatchIdle /\ OrderIdle /\ BBoxIdle
    /\ ContentIdle /\ PostIdle /\ PdfIdle /\ MidIdle /\ ServerIdle
NextSentences ==
    SentencesNext
    /\ UNCHANGED <<chunk_vars, classify_vars, match_vars, order_vars, bbox_vars,
                   content_vars, post_vars, pdf_vars, mid_vars, server_vars>>
SpecSentences == InitSentences /\ [][NextSentences]_vars

InitServer ==
    /\ ServerInit /\ ChunkInit /\ ClassifyInit /\ MatchIdle /\ OrderIdle /\ BBoxIdle
    /\ ContentIdle /\ PostIdle /\ PdfIdle /\ MidIdle /\ SentIdle
NextServer ==
    ServerNext
    /\ UNCHANGED <<chunk_vars, classify_vars, match_vars, order_vars, bbox_vars,
                   content_vars, post_vars, pdf_vars, mid_vars, sent_vars>>
SpecServer == InitServer /\ [][NextServer]_vars

InitChunk == ChunkInit /\ ClassifyInit /\ MatchIdle /\ OrderIdle /\ BBoxIdle /\ ExtIdle
NextChunk == ChunkNext /\ UNCHANGED <<classify_vars, match_vars, order_vars, bbox_vars, ext_vars>>
SpecChunk == InitChunk /\ [][NextChunk]_vars

(***************************************************************************)
(*                                 claims                                  *)
(***************************************************************************)
\* the sentences of the chunks of page pno, in output order
RECURSIVE ChunkSentsOfPage(_, _)
ChunkSentsOfPage(cs, pno) ==
    IF cs = <<>> THEN <<>>
    ELSE (IF Head(cs).page_index = pno THEN Head(cs).sents ELSE <<>>)
         \o ChunkSentsOfPage(Tail(cs), pno)

ChunksOfPage(pno) == {i \in 1..Len(chunks) : chunks[i].page_index = pno}

\* C2: the chunks of a page partition its sentence stream: the sentences of the
\* page's chunks, read in output order, are the page's input sentences, each once
\* and in input order.
C2_ChunksPartitionSentences ==
    /\ \A p \in 1..Len(doc) : ChunkSentsOfPage(chunks, p - 1) = doc[p]
    /\ \A i \in 1..Len(chunks) : chunks[i].page_index \in 0..(Len(doc) - 1)

\* a page of four sentences that was cut into several chunks
C2_Witness ==
    \E p \in 1..Len(doc) :
        /\ Len(doc[p]) >= 4
        /\ Cardinality(ChunksOfPage(p - 1)) >= 2

\* C3: no chunk holds more than max_sents sentences and no chunk's text is longer
\* than max_chars characters.
C3_ChunkWithinLimits ==
    \A i \in 1..Len(chunks) :
        /\ Len(chunks[i].sents) <= max_sents
        /\ chunks[i].text_len <= max_chars

\* C4: the order_idx values of the returned chunks are 0, 1, ..., N-1 in output
\* order, over all pages.
C4_OrderIdxContiguous ==
    /\ \A i \in 1..Len(chunks) : chunks[i].order_idx = i - 1
    /\ order = Len(chunks)

\* a three-page document whose middle page yields no chunk
C4_Witness ==
    /\ Len(doc) = 3
    /\ doc[2] = <<>>
    /\ ChunksOfPage(0) # {}
    /\ ChunksOfPage(2) # {}

\* the places <<collection, index>> of the entries held in results
EntryPlaces == UNION {{<<c, i>> : i \in 1..Len(results[c])} : c \in Collections}
EntryAt(pl) == results[pl[1]][pl[2]]

Categories == {"body", "title", "header", "footer", "page_number", "footnote",
               "list", "caption"}

CategoryOfCollection(c) ==
    CASE c = "text_blocks" -> "body"
      [] c = "titles" -> "title"
      [] c = "headers" -> "header"
      [] c = "footers" -> "footer"
      [] c = "page_numbers" -> "page_number"
      [] c = "footnotes" -> "footnote"
      [] c = "lists" -> "list"
      [] c = "captions" -> "caption"

\* C5: every line _process_text_line went through with (a bbox, a non-empty
\* span) has exactly one entry in the results, that entry carries one of the
\* eight categories and lies in the collection of its category; the results
\* hold no other entry.
C5_OneCategoryOneCollection ==
    /\ \A l \in processed :
         Cardinality({pl \in EntryPlaces :
                        EntryAt(pl).page = l[1] /\ EntryAt(pl).line_no = l[2]}) = 1
    /\ \A pl \in EntryPlaces :
         /\ EntryAt(pl).type \in Categories
         /\ EntryAt(pl).type = CategoryOfCollection(pl[1])
         /\ <<EntryAt(pl).page, EntryAt(pl).line_no>> \in processed

\* a footer, a page number and a skipped line in one document
C5_Witness ==
    /\ results["footers"] # <<>>
    /\ results["page_numbers"] # <<>>
    /\ Cardinality(processed) < TotalLen(page_lines)

\* the rule outcomes for an entry, each rule evaluated on its own with the
\* median the classification read
RulePageNumber(e) == IsPageNumber(e.text, e.bbox, PageHeight)
RuleHeaderFooter(e) == IsHeaderFooter(e.bbox, PageHeight)
RuleFootnote(e) == IsFootnote(e.text, e.bbox, PageHeight, e.font_info, e.median_at)
RuleCaption(e) == IsCaption(e.text, e.layout_type)
RuleList(e) == IsListItem(e.text)
RuleTitle(e) == IsTitle(e.text, e.font_info, e.layout_type, e.median_at)

\* C6: the category of an entry is that of the first rule that matches in the
\* order page_number, header/footer, footnote, caption, list, title, and body
\* when none matches.
C6_FirstMatchingRuleWins ==
    \A pl \in EntryPlaces :
        LET e == EntryAt(pl) IN
        /\ RulePageNumber(e) => e.type = "page_number"
        /\ (~ RulePageNumber(e) /\ RuleHeaderFooter(e)) =>
               e.type = (IF InHeaderBand(e.bbox, PageHeight) THEN "header" ELSE "footer")
        /\ (~ RulePageNumber(e) /\ ~ RuleHeaderFooter(e) /\ RuleFootnote(e)) =>
               e.type = "footnote"
        /\ (~ RulePageNumber(e) /\ ~ RuleHeaderFooter(e) /\ ~ RuleFootnote(e)
              /\ RuleCaption(e)) => e.type = "caption"
        /\ (~ RulePageNumber(e) /\ ~ RuleHeaderFooter(e) /\ ~ RuleFootnote(e)
              /\ ~ RuleCaption(e) /\ RuleList(e)) => e.type = "list"
        /\ (~ RulePageNumber(e) /\ ~ RuleHeaderFooter(e) /\ ~ RuleFootnote(e)
              /\ ~ RuleCaption(e) /\ ~ RuleList(e) /\ RuleTitle(e)) => e.type = "title"
        /\ (~ RulePageNumber(e) /\ ~ RuleHeaderFooter(e) /\ ~ RuleFootnote(e)
              /\ ~ RuleCaption(e) /\ ~ RuleList(e) /\ ~ RuleTitle(e)) => e.type = "body"

\* a caption-patterned line inside the header band classified header, a numeral
\* inside the band classified page_number, a list-patterned footnote and a bold
\* caption
C6_Witness ==
    /\ \E pl \in EntryPlaces :
         RuleCaption(EntryAt(pl)) /\ EntryAt(pl).type = "header"
    /\ \E pl \in EntryPlaces :
         RuleHeaderFooter(EntryAt(pl)) /\ EntryAt(pl).type = "page_number"
    /\ \E pl \in EntryPlaces :
         \/ RuleList(EntryAt(pl)) /\ EntryAt(pl).type = "footnote"
         \/ RuleTitle(EntryAt(pl)) /\ EntryAt(pl).type = "caption"

\* C7: two lines with the same text, bbox, font info and layout type (on pages of
\* the same height) get the same category, whatever was classified before them.
C7_SameLineSameCategory ==
    \A p1, p2 \in EntryPlaces :
        (/\ EntryAt(p1).text = EntryAt(p2).text
         /\ EntryAt(p1).bbox = EntryAt(p2).bbox
         /\ EntryAt(p1).font_info = EntryAt(p2).font_info
         /\ EntryAt(p1).layout_type = EntryAt(p2).layout_type)
        => EntryAt(p1).type = EntryAt(p2).type

\* the matches of call k as a set
MatchSet(k) == {match_log[k][i] : i \in 1..Len(match_log[k])}

ElementOfId(id) == (CHOOSE e \in {visual_elements[j] : j \in 1..Len(visual_elements)} :
                        e.id = id).item

\* C1: in the list of matches a call returns, no caption candidate and no visual
\* element appears in more than one match.
C1_MatchingIsOneToOne ==
    \A k \in 1..Len(match_log) :
        \A i, j \in 1..Len(match_log[k]) :
            i # j => /\ match_log[k][i].caption # match_log[k][j].caption
                     /\ match_log[k][i].element # match_log[k][j].element

\* an element that was matched although a second candidate also scores above the
\* minimum for it, in a call that returned two matches
C1_Witness ==
    /\ Len(match_log) >= 1
    /\ Len(match_log[1]) = 2
    /\ \E i \in 1..Len(match_log[1]) : \E c \in 1..Len(captions) :
         /\ captions[c].id # match_log[1][i].caption
         /\ CalculateMatchingScore(captions[c].item,
                                   ElementOfId(match_log[1][i].element)) > MinScore

\* C9: a second call on the lists the first call left (sorted) returns the same
\* set of matches: the same pairs, scores and match types.
C9_RematchIsIdempotent ==
    \A k \in 1..Len(match_log) : MatchSet(k) = MatchSet(1)

\* two calls made, and the first matched one of two elements of equal sort key
\* and equal score for the matched candidate
C9_Witness ==
    /\ Len(match_log) = 2
    /\ \E i \in 1..Len(match_log[1]) : \E j \in 1..Len(visual_elements) :
         LET m == match_log[1][i]
             e == visual_elements[j]
             c == (CHOOSE x \in {captions[n] : n \in 1..Len(captions)} :
                       x.id = m.caption).item
         IN /\ e.id # m.element
            /\ e.item.page = ElementOfId(m.element).page
            /\ e.item.bbox[2] = ElementOfId(m.element).bbox[2]
            /\ CalculateMatchingScore(c, e.item) = m.score

\* C8: along the sequence detect_reading_order returns, the reading_order
\* indices are 0, 1, ..., n-1 (strictly increasing) and the page index never
\* decreases.
C8_ReadingOrderIncreasing ==
    order_done =>
        /\ \A i \in 1..Len(ordered_blocks) : ordered_blocks[i].reading_order = i - 1
        /\ \A i, j \in 1..Len(ordered_blocks) :
             i < j => /\ ordered_blocks[i].reading_order < ordered_blocks[j].reading_order
                      /\ ordered_blocks[i].item.page <= ordered_blocks[j].item.page

\* three blocks given with a later page first, one page laid out in two columns
C8_Witness ==
    /\ order_done
    /\ Len(ordered_blocks) = 3
    /\ \E i, j \in 1..Len(text_blocks) :
         i < j /\ text_blocks[i].item.page > text_blocks[j].item.page
    /\ \E p \in {0, 1} : Len(DetectColumns(PageBlocks(text_blocks, p))) > 1

\* the boxes share no interior point
NoIntersection(b1, b2) ==
    \/ b1[3] <= b2[1] \/ b2[3] <= b1[1]
    \/ b1[4] <= b2[2] \/ b2[4] <= b1[2]

\* C10: bbox_overlap_ratio(a, b) equals bbox_overlap_ratio(b, a), lies in [0, 1],
\* is 0 when the boxes do not intersect, and no division by zero is raised.
C10_OverlapRatioSymmetricBounded ==
    ratio_done =>
        /\ ~ ratio12.raised /\ ~ ratio21.raised
        /\ ratio12.den > 0 /\ ratio21.den > 0
        /\ ratio12.num * ratio21.den = ratio21.num * ratio12.den
        /\ 0 <= ratio12.num /\ ratio12.num <= ratio12.den
        /\ NoIntersection(bbox1, bbox2) => ratio12.num = 0

\* two boxes of different area that overlap in part
C10_Witness ==
    /\ ratio_done
    /\ BboxArea(bbox1) # BboxArea(bbox2)
    /\ 0 < ratio12.num /\ ratio12.num < ratio12.den

\* the matches of call k whose candidate stands before place i of the sorted
\* candidate list
MatchesBefore(k, i) ==
    {m \in MatchSet(k) : \E n \in 1..(i - 1) : captions[n].id = m.caption}

\* the elements call k had consumed when it came to the candidate at place i
ConsumedBefore(k, i) == {m.element : m \in MatchesBefore(k, i)}

\* the elements not consumed at that point that score above the minimum for
\* the candidate at place i
Eligible(k, i) ==
    {e \in {visual_elements[j] : j \in 1..Len(visual_elements)} :
        /\ e.id \notin ConsumedBefore(k, i)
        /\ CalculateMatchingScore(captions[i].item, e.item) > MinScore}

\* C11: greedy matching. Taking the candidates in (page, y0) order, a matched
\* candidate's element is one of the elements not consumed by earlier
\* candidates, it has the highest score among them, and that score is above 0.3
\* and at most 1; a candidate is unmatched only when no unconsumed element
\* scores above 0.3.
C11_GreedyBestAboveMinimum ==
    \A k \in 1..Len(match_log) : \A i \in 1..Len(captions) :
        LET mine == {m \in MatchSet(k) : m.caption = captions[i].id}
        IN /\ mine = {} => Eligible(k, i) = {}
           /\ \A m \in mine :
                /\ \E e \in Eligible(k, i) :
                      /\ e.id = m.element
                      /\ m.score = CalculateMatchingScore(captions[i].item, e.item)
                /\ \A e \in Eligible(k, i) :
                      CalculateMatchingScore(captions[i].item, e.item) <= m.score
                /\ m.score > MinScore
                /\ m.score <= 1000

\* a call in which the second candidate was matched to an element although an
\* element consumed by the first candidate scores higher for it, and the first
\* candidate passed over an eligible element of lower score that stands earlier
\* in the element list
C11_Witness ==
    /\ Len(match_log) >= 1
    /\ Len(captions) = 2 /\ Len(visual_elements) = 2
    /\ Len(match_log[1]) = 2
    /\ \E m1, m2 \in MatchSet(1) :
         /\ m1.caption = captions[1].id
         /\ m2.caption = captions[2].id
         /\ CalculateMatchingScore(captions[2].item, ElementOfId(m1.element)) > m2.score
         /\ m1.element = visual_elements[2].id
         /\ CalculateMatchingScore(captions[1].item, visual_elements[1].item) > MinScore

\* what a dict is a copy of: the collection and place of the dict of the
\* results it was made from
OriginOf(e) == <<e.id[2], e.id[3]>>

SeqRange(s) == {s[k] : k \in 1..Len(s)}

\* the visual elements of the results, of all four collections
ResultElements == UNION {SeqRange(content[VisualTypes[t]]) : t \in 1..Len(VisualTypes)}

\* the origins of the elements and of the candidates that are in a match of
\* the call
MatchedElementOrigins ==
    {OriginOf(ItemOfId(visual_elements, m.element)) : m \in MatchSet(1)}
MatchedCandidateOrigins ==
    {OriginOf(ItemOfId(captions, m.caption)) : m \in MatchSet(1)}

\* every matched visual element of the results carries the back-reference
C12_BackReferenceSet ==
    match_captions_done =>
        \A e \in ResultElements : OriginOf(e) \in MatchedElementOrigins => e.caption # <<>>

\* find_orphaned_elements returns exactly the elements in no match
C12_OrphanedElementsExact ==
    match_captions_done =>
        {OriginOf(e) : e \in SeqRange(FindOrphanedElements(content))}
            = {OriginOf(e) : e \in ResultElements} \ MatchedElementOrigins

\* find_orphaned_captions returns exactly the candidates in no match
C12_OrphanedCaptionsExact ==
    match_captions_done =>
        {OriginOf(c) : c \in SeqRange(FindOrphanedCaptions(content))}
            = {OriginOf(c.item) : c \in SeqRange(captions)} \ MatchedCandidateOrigins

\* C12: after match_captions every matched visual element of the results
\* carries a back-reference to its caption, find_orphaned_elements returns
\* exactly the visual elements that are in no match and find_orphaned_captions
\* returns exactly the caption candidates that are in no match.
C12_OrphanQueriesExact ==
    /\ C12_BackReferenceSet
    /\ C12_OrphanedElementsExact
    /\ C12_OrphanedCaptionsExact

\* the candidates of the call that were recovered from text_blocks and matched
RecoveredAndMatched(caps, matches) ==
    {c \in {ItemOfId(caps, matches[i].caption) : i \in 1..Len(matches)} :
        c.source = "text_analysis"}

\* C13: after match_captions, every candidate that was recovered from the body
\* collection and matched is no longer in text_blocks and is in captions with
\* its match metadata (matched_element, match_score, match_type); every body
\* block that was not matched is still in text_blocks.
C13_MatchedBodyCandidatesRehomed ==
    [][match_captions_done' =>
         /\ \A i \in 1..Len(match_log'[1]) :
               LET m == match_log'[1][i]
                   c == ItemOfId(captions', m.caption)
               IN c.source = "text_analysis" =>
                    /\ \A b \in SeqRange(content'.text_blocks) : <<b.id>> # c.original_block
                    /\ \E e \in SeqRange(content'.captions) :
                          /\ OriginOf(e) = OriginOf(c)
                          /\ e.text = c.text
                          /\ e.matched_element # <<>>
                          /\ e.matched_element[1].id = m.element
                          /\ e.match_score = <<m.score>>
                          /\ e.match_type = <<m.match_type>>
         /\ \A b \in SeqRange(content.text_blocks) :
               (\A c \in RecoveredAndMatched(captions', match_log'[1]) :
                    c.original_block # <<b.id>>)
               => b \in SeqRange(content'.text_blocks)
      ]_vars

\* match_captions has matched a candidate recovered from text_blocks and left
\* another body block unmatched
C13_Witness ==
    /\ match_captions_done
    /\ RecoveredAndMatched(captions, match_log[1]) # {}
    /\ content.text_blocks # <<>>
    /\ \E e \in SeqRange(content.captions) :
         e.source = "text_analysis" /\ e.matched_element # <<>>

\* the chunks of page pno as a list, in output order
RECURSIVE ChunkListOfPage(_, _)
ChunkListOfPage(cs, pno) ==
    IF cs = <<>> THEN <<>>
    ELSE (IF Head(cs).page_index = pno THEN <<Head(cs)>> ELSE <<>>)
         \o ChunkListOfPage(Tail(cs), pno)

\* the places in the page's sentence stream at which the chunks of the list
\* begin
ChunkStarts(cl) ==
    {1 + SumSeq([j \in 1..(k - 1) |-> Len(cl[j].sents)]) : k \in 1..Len(cl)}

\* the place at which the chunk holding sentence i begins
StartOf(starts, i) == CHOOSE b \in starts : b <= i /\ \A c \in starts : c <= i => c <= b

\* C14: the running chunk is closed before sentence s exactly when s's section
\* differs from the running chunk's, or the running chunk already holds
\* max_sents sentences, or the summed length of its sentences plus len(s) is
\* strictly greater than max_chars (a sum of exactly max_chars stays in one
\* chunk).
C14_BoundaryRule ==
    \A p \in 1..Len(doc) :
        LET sents  == doc[p]
            starts == ChunkStarts(ChunkListOfPage(chunks, p - 1))
        IN \A i \in 2..Len(sents) :
             LET b       == StartOf(starts, i - 1)
                 running == SubSeq(sents, b, i - 1)
             IN (i \in starts) <=>
                  \/ sents[i].section # sents[b].section
                  \/ Len(running) >= max_sents
                  \/ SumLen(running) + sents[i].len > max_chars

\* a page on which two sentences of one section whose lengths sum to exactly
\* max_chars share one chunk, and a page on which a 301-character and a
\* 150-character sentence of one section went to two chunks
C14_Witness ==
    /\ \E p \in 1..Len(doc) :
         LET cl == ChunkListOfPage(chunks, p - 1)
         IN /\ Len(doc[p]) = 2 /\ Len(cl) = 1
            /\ SumLen(cl[1].sents) = max_chars
    /\ \E q \in 1..Len(doc) :
         LET cl == ChunkListOfPage(chunks, q - 1)
         IN /\ Len(doc[q]) = 2 /\ Len(cl) = 2
            /\ doc[q][1].len = 301 /\ doc[q][2].len = 150
            /\ doc[q][1].section = doc[q][2].section

\* the number of input blocks an output block of the merge stands for
MemberCount(block) == IF block.merged_from = <<>> THEN 1 ELSE block.merged_from[1]

\* the places in the sorted input list at which the output blocks begin
MergeStarts(out) ==
    {1 + SumSeq([j \in 1..(k - 1) |-> MemberCount(out[j])]) : k \in 1..Len(out)}

\* the categories _merge_nearby_blocks merges
MergedCategories == {"text_blocks", "titles", "captions"}

RepairInput ==
    IF post_call = "post_process_classification" THEN MergeNearbyBlocks(post_input[1])
    ELSE post_input[1]

\* the texts of at least 5 characters that occur on 3 or more pages of the
\* repair's input, every occurrence inside the header/footer band
RepeatedBandTexts ==
    LET blocks == SeqRange(AllTextBlocks(RepairInput))
    IN {t \in {b.text : b \in blocks} :
          /\ Len(t) >= 5
          /\ Cardinality({b.page : b \in {x \in blocks : x.text = t}}) >= 3
          /\ \A b \in {x \in blocks : x.text = t} :
                \/ 10 * b.bbox[2] < 1 * ApproximatePageHeight
                \/ 10 * b.bbox[2] > 9 * ApproximatePageHeight}

\* C16: header/footer repair. When a text of at least 5 characters occurs on 3
\* or more pages, every occurrence inside the header/footer band, the repair
\* pass completes without error, and afterwards no block of that text is in
\* text_blocks: every block of that text is in headers or footers with type
\* header or footer.
C16_RepeatedTextRepaired ==
    (post_call \in {"_fix_header_footer_classification", "post_process_classification"}
        /\ RepeatedBandTexts # {})
    => /\ ~ post_raised
       /\ \A t \in RepeatedBandTexts :
            /\ \A b \in SeqRange(results["text_blocks"]) : b.text # t
            /\ \A c \in {"headers", "footers"} : \A b \in SeqRange(results[c]) :
                  b.text = t => b.type \in {"header", "footer"}
            /\ \E c \in {"headers", "footers"} : \E b \in SeqRange(results[c]) : b.text = t

\* C17: the median font size that classification reads is frozen before the first
\* line of the document is classified: any two classified lines of the document
\* were classified against the same median.
C17_MedianFrozen ==
    \A p1, p2 \in EntryPlaces : EntryAt(p1).median_at = EntryAt(p2).median_at

\* the places of the stage log where process_pdf made the call `name`
StagePlaces(name) == {i \in 1..Len(stage_log) : stage_log[i] = name}

\* two blocks of the list that the adjacency merge would join
HasMergeableBlocks(blocks) ==
    LET s == SortEntriesByPageY(blocks)
    IN \E j \in 2..Len(s) : JoinsGroup(s[j - 1], s[j])

\* C18: for a document read by native text extraction the stages of process_pdf
\* run strictly forward: every page is classified before any whole-document
\* pass, the merge and header/footer repair run before caption matching, caption
\* matching before the reading order, and the caption matcher is handed merged
\* blocks only.
C18_StagesStrictlyForward ==
    ~ LowExtractability(pdf_document) =>
        /\ \A i \in StagePlaces("post_process_classification")
                    \cup StagePlaces("match_captions")
                    \cup StagePlaces("_classify_reading_order") :
              Cardinality({j \in StagePlaces("classify_text_blocks") : j < i})
                  = Len(pdf_document)
        /\ \A i \in StagePlaces("match_captions") :
              \E j \in StagePlaces("post_process_classification") : j < i
        /\ \A i \in StagePlaces("_classify_reading_order") :
              \E j \in StagePlaces("match_captions") : j < i
        /\ matcher_input # <<>> => ~ HasMergeableBlocks(matcher_input[1])

\* the strictly positive sizes of the page's spans, sorted
PositiveSizes == SortInts(SelectSeq(span_sizes, LAMBDA z : z > 0))

\* a median of the sorted list d, doubled: the middle value, or for an even
\* length either middle value or their mean
Medians2(d) ==
    IF Len(d) % 2 = 1 THEN {2 * d[(Len(d) + 1) \div 2]}
    ELSE {2 * d[Len(d) \div 2], d[Len(d) \div 2] + d[Len(d) \div 2 + 1],
          2 * d[Len(d) \div 2 + 1]}

\* C19: the median font size of a page never raises and ignores zero and
\* negative sizes: it is a median of the strictly positive sizes, or 12.0 when
\* there is none.
C19_MedianOfPositiveSizes ==
    mid_done =>
        /\ ~ page_mid.raised
        /\ page_mid.value # <<>>
        /\ IF PositiveSizes = <<>> THEN page_mid.value[1] = 12
           ELSE 2 * page_mid.value[1] \in Medians2(PositiveSizes)

\* a line in error: no bbox or a bbox without area, no span with text, or a
\* span that makes the classification of the line raise
LineInError(line) ==
    \/ line.bbox = <<>>
    \/ BboxArea(line.bbox) = 0
    \/ LineRaises(line)
    \/ TextParts(line.spans) = <<>>

\* the entries of the results made from line i of page p (counted from 1)
EntriesOfLine(p, i) ==
    {pl \in EntryPlaces : EntryAt(pl).page = p - 1 /\ EntryAt(pl).line_no = i}

\* C20: a line in error is added to no collection, and every other line of the
\* page, before and after it, is classified and added (once).
C20_LineErrorSkipsOnlyThatLine ==
    \A p \in 1..Len(page_lines) : \A i \in 1..Len(page_lines[p]) :
        IF LineInError(page_lines[p][i]) THEN EntriesOfLine(p, i) = {}
        ELSE Cardinality(EntriesOfLine(p, i)) = 1

\* classification of the page raised: a line of the page made it raise
PageRaised(lines) == LinesReached(lines) < Len(lines)

\* the entries of the results made from page p (counted from 1)
EntriesOfPage(p) == {pl \in EntryPlaces : EntryAt(pl).page = p - 1}

\* C21: when the classification of page p raises, the following pages are
\* still classified and page p contributes nothing: no collection holds a block
\* of page p, and on every other page each line with a bbox and text has its
\* one entry.
C21_FailedPageContributesNothing ==
    \A p \in 1..Len(page_lines) :
        IF PageRaised(page_lines[p]) THEN EntriesOfPage(p) = {}
        ELSE \A i \in 1..Len(page_lines[p]) :
                LineIsProcessed(page_lines[p][i]) => Cardinality(EntriesOfLine(p, i)) = 1

\* the section of greatest count that occurs first in the slice
FirstDominant(sec_slice) ==
    sec_slice[CHOOSE k \in 1..Len(sec_slice) :
                 /\ sec_slice[k] \in DominantSections(sec_slice)
                 /\ \A j \in 1..(k - 1) : sec_slice[j] \notin DominantSections(sec_slice)]

\* the sections of the words of sentence i of the returned list
SliceOfSentence(i) ==
    LET wi == SumSeq([j \in 1..(i - 1) |-> sentences_out[j].n])
    IN [k \in 1..sentences_out[i].n |-> words_tagged[wi + k].section]

\* C22: the section of a sentence is the section carried by the most of its
\* words, and of the sections that tie for the most words the one that occurs
\* first in the sentence; the same word sequence always gives the same result.
C22_DominantSectionFirstOnTie ==
    sents_done =>
        \A i \in 1..Len(sentences_out) :
            sentences_out[i].section = FirstDominant(SliceOfSentence(i))

\* f"{caption_type}_{element_type}" of a match
MatchTypeString(m) == m.match_type[1] \o "_" \o m.match_type[2]

\* the match types of the form captionType_elementType
WellFormedMatchTypes ==
    {c \o "_" \o e : c \in {"figure", "table", "equation", "algorithm", "generic"},
                     e \in {"figure", "image", "table", "formula"}}

\* C23: every match of match_captions has a match type captionType_elementType
\* with captionType one of figure, table, equation, algorithm, generic and
\* elementType one of figure, image, table, formula; a caption entry of the
\* text classifier ("Figure 2: ...") matched to an image gives "figure_image".
C23_MatchTypeWellFormed ==
    match_captions_done =>
        \A i \in 1..Len(match_log[1]) :
            LET m == match_log[1][i]
                c == ItemOfId(captions, m.caption)
                e == ItemOfId(visual_elements, m.element)
            IN /\ MatchTypeString(m) \in WellFormedMatchTypes
               /\ (c.source = NoneVal /\ e.element_type = "image")
                     => MatchTypeString(m) = "figure_image"

\* C24: in _group_into_chunks every chunk is appended exactly once and no
\* emitted chunk is empty, for every input, an empty stream and a first
\* sentence longer than max_chars included: the chunks of a page begin at
\* different places of its sentence stream, hold at least one sentence each and
\* together as many sentences as the page has.
C24_ChunksOnceAndNonEmpty ==
    \A p \in 1..Len(doc) :
        LET cl == ChunkListOfPage(chunks, p - 1)
        IN /\ \A k \in 1..Len(cl) : cl[k].sents # <<>> /\ cl[k].text_len >= 1
           /\ Cardinality(ChunkStarts(cl)) = Len(cl)
           /\ SumSeq([k \in 1..Len(cl) |-> Len(cl[k].sents)]) = Len(doc[p])
           /\ doc[p] = <<>> => cl = <<>>

\* an empty page, and a page whose first sentence is longer than max_chars and
\* is followed by another sentence
C24_Witness ==
    /\ \E p \in 1..Len(doc) : doc[p] = <<>>
    /\ \E q \in 1..Len(doc) :
         /\ Len(doc[q]) >= 2
         /\ doc[q][1].len > max_chars
         /\ Len(ChunkListOfPage(chunks, q - 1)) >= 2

\* the average size of the line is at most footnote_size_ratio times the median
\* the classification read; with no median to compare with, the comparison is
\* taken to hold, as _is_footnote takes it
SmallForFootnote(e) ==
    ~ (/\ HasMedian(e.font_info, e.median_at)
       /\ 20 * SumSizes(e.font_info) >
              footnote_size_ratio_x10 * e.median_at[1] * Len(e.font_info))

\* C25: a line that no earlier rule claims is classified footnote exactly when
\* its bottom edge is below 70% of the page height, its average font size is at
\* most 0.9 times the median, and it matches the leading-marker pattern or a
\* citation pattern or is shorter than 120 characters; no line whose average
\* size exceeds 0.9 times the median is classified footnote.
C25_FootnoteExactlyWhen ==
    \A pl \in EntryPlaces :
        LET e == EntryAt(pl) IN
        /\ (~ RulePageNumber(e) /\ ~ RuleHeaderFooter(e)) =>
              (e.type = "footnote" <=>
                  /\ 10 * e.bbox[4] >= footnote_region_x10 * PageHeight
                  /\ SmallForFootnote(e)
                  /\ \/ footnote_pattern(e.text)
                     \/ citation_pattern(e.text)
                     \/ TextLen(e.text) < 120)
        /\ ~ SmallForFootnote(e) => e.type # "footnote"

\* the x0 values of the input blocks of page p, and those that begin a column:
\* the ones more than ColumnGap to the right of the next smaller x0
XsOfPage(p) ==
    {text_blocks[k].item.bbox[1] : k \in {j \in 1..Len(text_blocks) : text_blocks[j].item.page = p}}
ColumnStartsOfPage(p) ==
    {x \in XsOfPage(p) :
        /\ \E w \in XsOfPage(p) : w < x
        /\ \A w \in XsOfPage(p) : w < x => (x - w > ColumnGap \/ \E u \in XsOfPage(p) : w < u /\ u < x)}
\* the column of a block: the number of column starts at or left of its x0
ColumnOfBlock(b) ==
    Cardinality({x \in ColumnStartsOfPage(b.item.page) : x <= b.item.bbox[1]})

\* C26: per page, the blocks are split into columns wherever two consecutive
\* sorted x0 values are more than 50pt apart; with two or more columns all
\* blocks of a column come out, sorted by y0, before any block of a column
\* further right, and with a single column the blocks come out sorted by
\* (y0, x0).
C26_ColumnsLeftToRightThenY ==
    order_done =>
        \A i, j \in 1..Len(ordered_blocks) :
            (i < j /\ ordered_blocks[i].item.page = ordered_blocks[j].item.page) =>
                LET a == ordered_blocks[i]
                    b == ordered_blocks[j]
                IN IF ColumnStartsOfPage(a.item.page) # {}
                   THEN \/ ColumnOfBlock(a) < ColumnOfBlock(b)
                        \/ /\ ColumnOfBlock(a) = ColumnOfBlock(b)
                           /\ a.item.bbox[2] <= b.item.bbox[2]
                   ELSE \/ a.item.bbox[2] < b.item.bbox[2]
                        \/ /\ a.item.bbox[2] = b.item.bbox[2]
                           /\ a.item.bbox[1] <= b.item.bbox[1]

\* a page in two columns whose left column is given bottom block first, and a
\* right-column block higher on the page than the last block of the left column
C26_Witness ==
    /\ order_done
    /\ Len(text_blocks) = 3
    /\ \A k \in 1..3 : text_blocks[k].item.page = 0
    /\ text_blocks[1].item.bbox[1] = 50 /\ text_blocks[1].item.bbox[2] = 200
    /\ text_blocks[2].item.bbox[1] = 350 /\ text_blocks[2].item.bbox[2] = 100
    /\ text_blocks[3].item.bbox[1] = 90 /\ text_blocks[3].item.bbox[2] = 100
    /\ ordered_blocks[1].id = text_blocks[3].id
    /\ ordered_blocks[3].id = text_blocks[2].id

\* C27: detect_reading_order returns a permutation of its input: every input
\* block is in exactly one column of its page and occurs exactly once in the
\* returned sequence, whatever the x0 positions and the number of column gaps.
C27_ReadingOrderIsPermutation ==
    order_done =>
        /\ Len(ordered_blocks) = Len(text_blocks)
        /\ \A k \in 1..Len(text_blocks) :
             /\ Cardinality({i \in 1..Len(ordered_blocks) :
                                /\ ordered_blocks[i].id = text_blocks[k].id
                                /\ ordered_blocks[i].item = text_blocks[k].item}) = 1
             /\ LET columns == DetectColumns(PageBlocks(text_blocks, text_blocks[k].item.page))
                IN Cardinality({pl \in {<<c, i>> : c \in 1..Len(columns), i \in 1..MaxBlocks + 1} :
                                   /\ pl[2] <= Len(columns[pl[1]])
                                   /\ columns[pl[1]][pl[2]].id = text_blocks[k].id}) = 1

\* one page whose three blocks lie in three columns (two gaps)
C27_Witness ==
    /\ order_done
    /\ Len(text_blocks) = 3
    /\ Len(DetectColumns(PageBlocks(text_blocks, 0))) = 3
    /\ Len(ordered_blocks) = 3

\* the texts of a list of blocks joined by single spaces, "" for no block
JoinedTexts(blocks) ==
    IF blocks = <<>> THEN "" ELSE JoinTexts([k \in 1..Len(blocks) |-> blocks[k].text])

\* the list _merge_nearby_blocks walks: sorted by (page, y0) when it holds more
\* than one block
MergeOrder(blocks) == IF Len(blocks) <= 1 THEN blocks ELSE SortEntriesByPageY(blocks)

\* C28: _merge_nearby_blocks loses and duplicates nothing. For each merged
\* category the member counts of the output blocks (1 for an unmerged block)
\* add up to the number of input blocks, the members of an output block are all
\* on one page, and the output texts joined in order equal the input texts
\* joined in (page, y0) order.
C28_MergeConservesBlocks ==
    post_call = "_merge_nearby_blocks" =>
      \A c \in MergedCategories :
        LET inp == MergeOrder(post_input[1][c])
            out == results[c]
        IN /\ SumSeq([k \in 1..Len(out) |-> MemberCount(out[k])]) = Len(inp)
           /\ \A k \in 1..Len(out) :
                LET b == 1 + SumSeq([j \in 1..(k - 1) |-> MemberCount(out[j])])
                IN \A m \in b..(b + MemberCount(out[k]) - 1) :
                      m <= Len(inp) /\ inp[m].page = out[k].page
           /\ JoinedTexts(out) = JoinedTexts(inp)

\* three body lines given with the later page first, two of them merged, and
\* the two texts of the sample in one list
C28_Witness ==
    /\ post_call = "_merge_nearby_blocks"
    /\ Len(post_input[1]["text_blocks"]) = 3
    /\ post_input[1]["text_blocks"][1].page > post_input[1]["text_blocks"][2].page
    /\ post_input[1]["text_blocks"][1].text = "Running foot"
    /\ Len(results["text_blocks"]) = 2
    /\ results["text_blocks"][1].merged_from = <<2>>
    /\ results["text_blocks"][2].text = "Running foot"

\* results['content'] at the start of the last call of match_captions
ContentAtCall == content_before[Len(content_before)]

\* the matched candidates of the last call that were not recovered from
\* text_blocks: the explicit captions
MatchedExplicit ==
    {c \in {ItemOfId(captions, match_log[1][i].caption) : i \in 1..Len(match_log[1])} :
        c.source # "text_analysis"}

\* C29: match_captions conserves blocks. The number of blocks in text_blocks
\* plus the number in captions is the same before and after the call, no block
\* is in both collections afterwards, and each matched explicit caption is
\* replaced in captions by exactly one enriched entry.
C29_MatchCaptionsConservesBlocks ==
    match_captions_done =>
        /\ Len(content.text_blocks) + Len(content.captions)
              = Len(ContentAtCall.text_blocks) + Len(ContentAtCall.captions)
        /\ \A b \in SeqRange(content.text_blocks) : \A c \in SeqRange(content.captions) :
              b.id # c.id /\ c.original_block # <<b.id>>
        /\ \A c \in MatchedExplicit :
              /\ \A k \in 1..Len(content.captions) : content.captions[k].id # c.id
              /\ Cardinality({k \in 1..Len(content.captions) :
                                 /\ OriginOf(content.captions[k]) = OriginOf(c)
                                 /\ content.captions[k].matched_element # <<>>}) = 1

\* the dicts held in processing_projects
HeldEntries ==
    {entry_heap[processing_projects[d]] : d \in {x \in DocIds : processing_projects[x] # 0}}

\* C30: in every reachable state of processing_projects an entry with status
\* "completed" has progress 100 and an entry with status "failed" has progress
\* 0, also when create_project is called again for a document whose earlier
\* background audio generation is still running.
C30_FinalStatusProgress ==
    \A e \in HeldEntries :
        /\ e.status = "completed" => e.progress = 100
        /\ e.status = "failed" => e.progress = 0

=============================================================================
